---- MODULE Spec2Model ----
(***************************************************************************)
(* Order execution engine: the HTTP submission route, the BullMQ priority  *)
(* queue with its worker, OrderExecutionEngine.processOrder, the database  *)
(* record of an order and the WebSocket fan-out.                           *)
(*                                                                         *)
(* Spec       the whole program: orders enter through POST                 *)
(*            /api/orders/execute and run through the real engine.         *)
(* SpecQueue  OrderQueue alone, driven through addOrder, pauseQueue and    *)
(*            resumeQueue with the engine mocked as in the queue's unit    *)
(*            tests; SpecQueueLive adds the worker's fairness.             *)
(* SpecWs     WebSocketManager alone, as in its unit tests.                *)
(* SpecFn     the program's functions called on their own.                 *)
(* SpecEngine the queue and the engine with no subscriber, with spies on  *)
(*            the venue router and on the commits of FAILED.              *)
(***************************************************************************)
EXTENDS Integers, Sequences, FiniteSets, TLC

\* ------------------------------------------------------------- bounds
NumOrders == 1          \* submissions accepted by the route in Spec
NumChannels == 1        \* WebSocket connections opened in Spec
MaxStalls == 1          \* stalled-job re-queues per job
LoadOrders == 11        \* orders of the load workload of SpecQueue
MixJobs == 3            \* addOrder calls of a mixed workload of SpecQueue
MixIds == 2             \* order ids a mixed workload draws from
RecvWindow == 2         \* messages a channel's record keeps (the latest ones)
WsChannels == 2         \* SpecWs: WebSocket connections opened
WsOrders == 2           \* SpecWs: order ids subscribed and broadcast to
MaxAmount == 3          \* SpecFn: amounts run from -MaxAmount to MaxAmount (halves)
MaxPrice == 12          \* SpecFn: prices run from 0 to MaxPrice (units of 0.0000001)
MaxRetriesArg == 4      \* SpecFn: retryWithBackoff is called with maxRetries up to this
MaxRetryCount == 1      \* SpecFn: stored rows have retryCount from 0 to MaxRetryCount

\* ------------------------------------------------- program constants
Attempts == 3           \* defaultJobOptions.attempts
Concurrency == 10       \* Worker option concurrency
MaxRetries == 3         \* retryWithBackoff default maxRetries
BaseDelay == 1000       \* retryWithBackoff default baseDelay (ms)
MaxDelay == 30000       \* retryWithBackoff default maxDelay (ms)
BackoffMultiplier == 2  \* retryWithBackoff default backoffMultiplier

\* --------------------------------------------------------------- types
PENDING == "pending"
ROUTING == "routing"
BUILDING == "building"
SUBMITTED == "submitted"
CONFIRMED == "confirmed"
FAILED == "failed"

OrderStatus == {PENDING, ROUTING, BUILDING, SUBMITTED, CONFIRMED, FAILED}

\* OrderType has three members; "other" stands for any value outside the enum.
OrderType == {"market", "limit", "sniper"}
AnyType == OrderType \cup {"other"}

Undefined == "undefined"     \* an optional argument that was not given
Null == "null"               \* an SQL NULL column

VARIABLES
    db,           \* orders table: order id -> row
    jobs,         \* BullMQ jobs, indexed by job id (ids are issued in sequence)
    waitq,        \* ids of the waiting jobs, in arrival order
    run,          \* per job: the current (or last) processOrder invocation
    paused,       \* queue.pause() is in force
    connections,  \* WebSocketManager.connections: order id -> channel, 0 = none
    chan,         \* per channel: the socket and its subscribe handler
    workload,     \* SpecQueue: the orders handed to addOrder, in call order
    replies,      \* the route's reply to each request, in arrival order
    call          \* SpecFn: the latest function call, its arguments and result

vars == <<db, jobs, waitq, run, paused, connections, chan, workload, replies, call>>

\* --------------------------------------------------------- the database
NewRow(type) ==
    [ type |-> type, status |-> PENDING, retryCount |-> 0, txHash |-> Null,
      executedAt |-> Null, errorMessage |-> Null, dex |-> Null ]

Coalesce(new, old) == IF new = Undefined THEN old ELSE new

UpdateRowCountsEveryUpdate(row, status, data) ==
    [ row EXCEPT
        !.status = status,
        !.txHash = Coalesce(data.txHash, row.txHash),
        !.executedAt = Coalesce(data.executedAt, row.executedAt),
        !.errorMessage = Coalesce(data.errorMessage, row.errorMessage),
        !.dex = Coalesce(data.dex, row.dex),
        !.retryCount = row.retryCount + 1 ]

UpdateRowOverwrites(row, status, data) ==
    [ row EXCEPT
        !.status = status,
        !.txHash = IF data.txHash = Undefined THEN Null ELSE data.txHash,
        !.executedAt = IF data.executedAt = Undefined THEN Null ELSE data.executedAt,
        !.errorMessage = IF data.errorMessage = Undefined THEN Null
                         ELSE data.errorMessage,
        !.dex = IF data.dex = Undefined THEN Null ELSE data.dex,
        !.retryCount = IF status = FAILED THEN row.retryCount + 1 ELSE row.retryCount ]

\* The UPDATE statement of Database.updateOrderStatus, on one row.
UpdateRow(row, status, data) ==
    [ row EXCEPT
        !.status = status,
        !.txHash = Coalesce(data.txHash, row.txHash),
        !.executedAt = Coalesce(data.executedAt, row.executedAt),
        !.errorMessage = Coalesce(data.errorMessage, row.errorMessage),
        !.dex = Coalesce(data.dex, row.dex),
        !.retryCount = IF status = FAILED THEN row.retryCount + 1 ELSE row.retryCount ]

\* The committed transaction: UPDATE ... WHERE id = orderId touches no row
\* when the id is unknown.
DbUpdateOrderStatus(table, orderId, status, data) ==
    IF orderId \in DOMAIN table
    THEN [table EXCEPT ![orderId] = UpdateRow(table[orderId], status, data)]
    ELSE table

NoData ==
    [ txHash |-> Undefined, executedAt |-> Undefined, errorMessage |-> Undefined,
      dex |-> Undefined ]

\* ------------------------------------------------------------ the queue
PriorityMutant(order) ==
    CASE order.type = "market" -> 0
      [] order.type = "limit" -> 2
      [] order.type = "sniper" -> 1
      [] OTHER -> 3

getOrderPriority(order) ==
    CASE order.type = "market" -> 1
      [] order.type = "limit" -> 2
      [] order.type = "sniper" -> 0
      [] OTHER -> 3

JobIds == 1..Len(jobs)

IdleRun ==
    [ pc |-> "idle", status |-> PENDING, inCatch |-> FALSE, err |-> "none",
      dex |-> Null, attempt |-> 0, exec |-> "none", persisted |-> <<>>,
      txHash |-> Undefined, sent |-> <<>>, swaps |-> <<>>, outcome |-> "none",
      raised |-> "none", quotes |-> <<>> ]

\* queue.add(`order-${order.id}`, {orderId, order}, {priority, delay: 0}):
\* no jobId option is given, so the queue issues the next job id.
NewJob(order) ==
    [ name |-> <<"order", order.id>>,
      data |-> [orderId |-> order.id, order |-> order],
      priority |-> getOrderPriority(order),
      delay |-> 0,
      state |-> "waiting",
      attemptsMade |-> 0,
      stalledCount |-> 0,
      invocations |-> 0,
      returns |-> 0 ]

AddOrderEffect(order) ==
    /\ jobs' = Append(jobs, NewJob(order))
    /\ waitq' = Append(waitq, Len(jobs) + 1)
    /\ run' = Append(run, IdleRun)

ActiveJobs == {j \in JobIds : jobs[j].state = "active"}
WaitingJobs == {waitq[i] : i \in 1..Len(waitq)}

Remove(seq, x) == SelectSeq(seq, LAMBDA y : y /= x)

\* The waiting job the worker fetches: the lowest priority number, and the
\* earliest arrival among those.
NextJob ==
    LET best == CHOOSE p \in {jobs[j].priority : j \in WaitingJobs} :
                    \A j \in WaitingJobs : p <= jobs[j].priority
        first == CHOOSE i \in 1..Len(waitq) :
                    /\ jobs[waitq[i]].priority = best
                    /\ \A k \in 1..(i - 1) : jobs[waitq[k]].priority /= best
    IN waitq[first]

FreshRunResumes ==
    [IdleRun EXCEPT !.pc = "build", !.status = BUILDING]

FreshRun ==
    [IdleRun EXCEPT !.pc = "persist", !.status = ROUTING]

CanDispatchUncapped ==
    /\ ~paused
    /\ waitq /= <<>>

CanDispatchWhilePaused ==
    /\ waitq /= <<>>
    /\ Cardinality(ActiveJobs) < Concurrency

CanDispatch ==
    /\ ~paused
    /\ waitq /= <<>>
    /\ Cardinality(ActiveJobs) < Concurrency

\* The worker takes the next job and calls the processor on it.
Dispatch ==
    /\ CanDispatch
    /\ LET j == NextJob IN
        /\ jobs' = [jobs EXCEPT ![j].state = "active",
                                ![j].invocations = @ + 1]
        /\ waitq' = Remove(waitq, j)
        /\ run' = [run EXCEPT ![j] = FreshRun]
    /\ UNCHANGED <<db, paused, connections, chan, workload, replies, call>>

\* What the queue does with a job whose processor returned or threw.
SettledOneTooMany(job, outcome) ==
    IF outcome = "returned"
    THEN [job EXCEPT !.state = "completed", !.returns = @ + 1]
    ELSE [job EXCEPT !.attemptsMade = @ + 1,
                     !.state = IF job.attemptsMade + 1 <= Attempts
                               THEN "delayed" ELSE "failed"]

Settled(job, outcome) ==
    IF outcome = "returned"
    THEN [job EXCEPT !.state = "completed", !.returns = @ + 1]
    ELSE [job EXCEPT !.attemptsMade = @ + 1,
                     !.state = IF job.attemptsMade + 1 < Attempts
                               THEN "delayed" ELSE "failed"]

\* The backoff delay of a failed attempt has passed.
PromoteDelayed(j) ==
    /\ jobs[j].state = "delayed"
    /\ jobs' = [jobs EXCEPT ![j].state = "waiting"]
    /\ waitq' = Append(waitq, j)
    /\ UNCHANGED <<db, run, paused, connections, chan, workload, replies, call>>

\* OrderQueue.addOrder, called directly.
addOrder ==
    /\ Len(jobs) < Len(workload)
    /\ AddOrderEffect(workload[Len(jobs) + 1])
    /\ UNCHANGED <<db, paused, connections, chan, workload, replies, call>>

\* OrderQueue.pauseQueue: queue.pause() stops the dispatch of waiting jobs;
\* active jobs run on.
pauseQueue ==
    /\ paused' = TRUE
    /\ UNCHANGED <<db, jobs, waitq, run, connections, chan, workload, replies, call>>

\* OrderQueue.resumeQueue: queue.resume().
resumeQueue ==
    /\ paused' = FALSE
    /\ UNCHANGED <<db, jobs, waitq, run, connections, chan, workload, replies, call>>

\* The engine of the queue's unit tests: processOrder resolves.
MockProcessOrder(j) ==
    /\ jobs[j].state = "active"
    /\ run[j].pc = "persist"
    /\ run' = [run EXCEPT ![j].pc = "ended", ![j].outcome = "returned"]
    /\ jobs' = [jobs EXCEPT ![j] = Settled(jobs[j], "returned")]
    /\ UNCHANGED <<db, waitq, paused, connections, chan, workload, replies, call>>

\* ------------------------------------------------- the WebSocket manager
MapSet(m, k, v) == [x \in DOMAIN m \cup {k} |-> IF x = k THEN v ELSE m[x]]
MapDelete(m, k) == [x \in DOMAIN m \ {k} |-> m[x]]

NoChan ==
    [ state |-> "none", orderId |-> 0, pc |-> "none", snap |-> [result |-> "none"],
      recv |-> <<>>, seq |-> 0 ]

\* A message on the wire. An update carries the caller's txHash, error and
\* route result (its dex); a snapshot carries the row's txHash, error and dex.
Message(kind, status, txHash, error, dex) ==
    [kind |-> kind, status |-> status, txHash |-> txHash, error |-> error, dex |-> dex]

UpdateMessage(status, data) ==
    Message("update", status, data.txHash, data.errorMessage, data.dex)

\* socket.send(msg) on an open socket: the record keeps the latest RecvWindow
\* messages.
Latest(seq) ==
    IF Len(seq) > RecvWindow THEN SubSeq(seq, Len(seq) - RecvWindow + 1, Len(seq)) ELSE seq

Deliver(ch, c, msg) ==
    [ch EXCEPT ![c].recv = Latest(Append(@, msg))]

\* A channel that has left the open state: nothing is delivered to it any
\* more, and what its peer had received goes with it. The states are "closing"
\* (readyState no longer OPEN), "broken" (its send throws) and "closed" (its
\* 'close' event was handled).
Gone(ch, state) ==
    [ch EXCEPT !.state = state, !.pc = "done", !.snap = NoChan.snap, !.recv = <<>>]

\* WebSocketManager.broadcastOrderUpdate. The channel the registry holds for
\* the order id, if any:
BroadcastTarget(orderId) ==
    IF orderId \in DOMAIN connections THEN {connections[orderId]} ELSE {}

\* the channel the message is sent to: the registered one, when its readyState
\* is OPEN and send does not throw;
BroadcastSentTo(orderId, sendThrows) ==
    {c \in BroadcastTarget(orderId) : chan[c].state = "open" /\ ~sendThrows}

\* the next value of the registry: a registered channel that is not open, or
\* whose send threw, is deleted;
BroadcastConnectionsKeeps(orderId, sendThrows) == connections

BroadcastConnections(orderId, sendThrows) ==
    IF BroadcastTarget(orderId) /= {} /\ BroadcastSentTo(orderId, sendThrows) = {}
    THEN MapDelete(connections, orderId)
    ELSE connections

\* the next value of the channels: the message reaches the channel it is sent
\* to; an open channel whose send threw is broken from then on.
BroadcastChanByOrderId(orderId, message, sendThrows) ==
    [ c \in DOMAIN chan |->
        IF chan[c].state = "open" /\ chan[c].orderId = orderId /\ ~sendThrows
        THEN [chan[c] EXCEPT !.recv = Latest(Append(@, message))]
        ELSE IF c \in BroadcastTarget(orderId) /\ chan[c].state = "open"
        THEN Gone(chan[c], "broken")
        ELSE chan[c] ]

BroadcastChan(orderId, message, sendThrows) ==
    [ c \in DOMAIN chan |->
        IF c \in BroadcastSentTo(orderId, sendThrows)
        THEN [chan[c] EXCEPT !.recv = Latest(Append(@, message))]
        ELSE IF c \in BroadcastTarget(orderId) /\ chan[c].state = "open"
        THEN Gone(chan[c], "broken")
        ELSE chan[c] ]

\* broadcastOrderUpdate called directly. The call and the channels it sent to
\* are recorded. No path of the function throws.
broadcastOrderUpdate(orderId, status) ==
    /\ \E sendThrows \in BOOLEAN :
          /\ connections' = BroadcastConnections(orderId, sendThrows)
          /\ chan' = BroadcastChan(orderId, UpdateMessage(status, NoData), sendThrows)
          /\ call' = [ fn |-> "broadcastOrderUpdate", orderId |-> orderId,
                       status |-> status,
                       sentTo |-> BroadcastSentTo(orderId, sendThrows),
                       threw |-> FALSE ]
    /\ UNCHANGED <<db, jobs, waitq, run, paused, workload, replies>>

\* WebSocketManager.sendHeartbeat. The heartbeat carries a type and two times,
\* no status.
HeartbeatMessage == Message("heartbeat", Undefined, Undefined, Undefined, Undefined)

Registered == {connections[o] : o \in DOMAIN connections}

\* The channels the heartbeat is sent to: the registered ones whose readyState
\* is OPEN and whose send does not throw (throwing: those whose send throws);
HeartbeatSentTo(throwing) ==
    {c \in Registered : chan[c].state = "open" /\ c \notin throwing}

\* the next value of the registry: the ids marked for removal are deleted;
HeartbeatConnectionsKeeps(throwing) == connections

HeartbeatConnections(throwing) ==
    LET connectionsToRemove ==
            {o \in DOMAIN connections : connections[o] \notin HeartbeatSentTo(throwing)}
    IN [o \in DOMAIN connections \ connectionsToRemove |-> connections[o]]

\* the next value of the channels.
HeartbeatChan(throwing) ==
    [ c \in DOMAIN chan |->
        IF c \in HeartbeatSentTo(throwing)
        THEN [chan[c] EXCEPT !.recv = Latest(Append(@, HeartbeatMessage))]
        ELSE IF c \in Registered /\ chan[c].state = "open"
        THEN Gone(chan[c], "broken")
        ELSE chan[c] ]

\* sendHeartbeat called directly; the call and the channels it sent to are
\* recorded.
sendHeartbeat ==
    /\ \E throwing \in SUBSET {c \in Registered : chan[c].state = "open"} :
          /\ connections' = HeartbeatConnections(throwing)
          /\ chan' = HeartbeatChan(throwing)
          /\ call' = [ fn |-> "sendHeartbeat", orderId |-> 0, status |-> Undefined,
                       sentTo |-> HeartbeatSentTo(throwing), threw |-> FALSE ]
    /\ UNCHANGED <<db, jobs, waitq, run, paused, workload, replies>>

\* The server's 30 second interval calls sendHeartbeat.
HeartbeatInterval ==
    /\ \E throwing \in SUBSET {c \in Registered : chan[c].state = "open"} :
          /\ connections' = HeartbeatConnections(throwing)
          /\ chan' = HeartbeatChan(throwing)
    /\ UNCHANGED <<db, jobs, waitq, run, paused, workload, replies, call>>

\* GET /ws/:orderId: the connection is stored (replacing the id's entry) and
\* the catch-up query starts.
Subscribe(c, orderId) ==
    /\ chan[c].state = "none"
    /\ connections' = MapSet(connections, orderId, c)
    /\ chan' = [chan EXCEPT ![c] =
                    [NoChan EXCEPT !.state = "open", !.orderId = orderId, !.pc = "query",
                                   !.seq = 1 + Cardinality({d \in DOMAIN chan :
                                                               chan[d].state /= "none"})]]
    /\ UNCHANGED <<db, jobs, waitq, run, paused, workload, replies, call>>

\* database.getOrder: the row, null when there is none, or an exception.
GetOrderAnswers(orderId) ==
    { [result |-> "error"],
      IF orderId \in DOMAIN db
      THEN [ result |-> "row", status |-> db[orderId].status,
             txHash |-> db[orderId].txHash, errorMessage |-> db[orderId].errorMessage,
             dex |-> db[orderId].dex ]
      ELSE [result |-> "notfound"] }

\* sendCurrentOrderStatus: database.getOrder answers.
SnapshotRead(c) ==
    /\ chan[c].pc = "query"
    /\ chan[c].state = "open"
    /\ \E answer \in GetOrderAnswers(chan[c].orderId) :
          chan' = [chan EXCEPT ![c].pc = "send", ![c].snap = answer]
    /\ UNCHANGED <<db, jobs, waitq, run, paused, connections, workload, replies, call>>

SnapshotMessageStatusOnly(snap) ==
    CASE snap.result = "row" ->
            Message("snapshot", snap.status, Null, Null, Null)
      [] snap.result = "notfound" ->
            Message("snapshot", FAILED, Undefined, "Order not found", Undefined)
      [] snap.result = "error" ->
            Message("snapshot", FAILED, Undefined, "Could not retrieve order status",
                    Undefined)

\* The message sendCurrentOrderStatus sends for what getOrder gave.
SnapshotMessage(snap) ==
    CASE snap.result = "row" ->
            Message("snapshot", snap.status, snap.txHash, snap.errorMessage, snap.dex)
      [] snap.result = "notfound" ->
            Message("snapshot", FAILED, Undefined, "Order not found", Undefined)
      [] snap.result = "error" ->
            Message("snapshot", FAILED, Undefined, "Could not retrieve order status",
                    Undefined)

\* sendCurrentOrderStatus: socket.send of the snapshot. (A socket that is no
\* longer open drops what is sent to it: its handler is over when it leaves
\* the open state.)
SnapshotSend(c) ==
    /\ chan[c].pc = "send"
    /\ chan[c].state = "open"
    /\ chan' = [Deliver(chan, c, SnapshotMessage(chan[c].snap))
                    EXCEPT ![c].pc = "done", ![c].snap = NoChan.snap]
    /\ UNCHANGED <<db, jobs, waitq, run, paused, connections, workload, replies, call>>

\* The socket leaves the OPEN state (readyState CLOSING or CLOSED) before its
\* 'close' event is handled.
SocketClosing(c) ==
    /\ chan[c].state = "open"
    /\ chan' = [chan EXCEPT ![c] = Gone(@, "closing")]
    /\ UNCHANGED <<db, jobs, waitq, run, paused, connections, workload, replies, call>>

\* The socket's 'close' event: the handler deletes the registry entry of the
\* socket's order id.
SocketClose(c) ==
    /\ chan[c].state \in {"open", "closing", "broken"}
    /\ chan' = [chan EXCEPT ![c] = Gone(@, "closed")]
    /\ connections' = MapDelete(connections, chan[c].orderId)
    /\ UNCHANGED <<db, jobs, waitq, run, paused, workload, replies, call>>

\* The socket's 'error' event: the handler deletes the registry entry of the
\* socket's order id. The socket that raised it is no longer usable; its
\* 'close' event may follow.
SocketError(c) ==
    /\ chan[c].state \in {"open", "closing"}
    /\ chan' = [chan EXCEPT ![c] = Gone(@, "broken")]
    /\ connections' = MapDelete(connections, chan[c].orderId)
    /\ UNCHANGED <<db, jobs, waitq, run, paused, workload, replies, call>>

\* ------------------------------------------------- the execution engine
OrderOf(j) == jobs[j].data.order

Running(j) == j \in JobIds /\ jobs[j].state = "active"

CallDataWithoutTxHash(r) ==
    CASE r.status = BUILDING -> [NoData EXCEPT !.dex = r.dex]
      [] r.status = CONFIRMED -> [NoData EXCEPT !.executedAt = "date"]
      [] r.status = FAILED -> [NoData EXCEPT !.errorMessage = r.err]
      [] OTHER -> NoData

\* The third argument of each updateOrderStatus call of processOrder.
CallData(r) ==
    CASE r.status = BUILDING -> [NoData EXCEPT !.dex = r.dex]
      [] r.status = CONFIRMED -> [NoData EXCEPT !.txHash = r.txHash, !.executedAt = "date"]
      [] r.status = FAILED -> [NoData EXCEPT !.errorMessage = r.err]
      [] OTHER -> NoData

\* processOrder ends: the promise resolves or rejects and the queue settles
\* the job.
Ended(j, r, outcome, raised) ==
    /\ run' = [run EXCEPT ![j] = [r EXCEPT !.pc = "ended", !.outcome = outcome,
                                           !.raised = raised]]
    /\ jobs' = [jobs EXCEPT ![j] = Settled(jobs[j], outcome)]

ThrownReturns(j, err) ==
    IF run[j].inCatch
    THEN Ended(j, run[j], "returned", "none")
    ELSE /\ run' = [run EXCEPT ![j].pc = "persist", ![j].status = FAILED,
                               ![j].inCatch = TRUE, ![j].err = err]
         /\ UNCHANGED jobs

\* An exception with message err is thrown inside processOrder: the catch
\* block takes it, or, thrown by the catch block itself, it leaves processOrder.
Thrown(j, err) ==
    IF run[j].inCatch
    THEN Ended(j, run[j], "thrown", err)
    ELSE /\ run' = [run EXCEPT ![j].pc = "persist", ![j].status = FAILED,
                               ![j].inCatch = TRUE, ![j].err = err]
         /\ UNCHANGED jobs

PersistNotifiesOnFailure(j) ==
    /\ Running(j)
    /\ run[j].pc = "persist"
    /\ \/ /\ db' = DbUpdateOrderStatus(db, OrderOf(j).id, run[j].status, CallData(run[j]))
          /\ run' = [run EXCEPT ![j].pc = "notify",
                                ![j].persisted = Append(@, run[j].status)]
          /\ UNCHANGED jobs
       \/ /\ run' = [run EXCEPT ![j].pc = "notify"]
          /\ UNCHANGED <<db, jobs>>
    /\ UNCHANGED <<waitq, paused, connections, chan, workload, replies, call>>

PersistNotAtomic(j) ==
    /\ Running(j)
    /\ run[j].pc = "persist"
    /\ \/ /\ db' = DbUpdateOrderStatus(db, OrderOf(j).id, run[j].status, CallData(run[j]))
          /\ run' = [run EXCEPT ![j].pc = "notify",
                                ![j].persisted = Append(@, run[j].status)]
          /\ UNCHANGED jobs
       \/ /\ Thrown(j, "database error")
          /\ db' = [db EXCEPT ![OrderOf(j).id].status = run[j].status]
    /\ UNCHANGED <<waitq, paused, connections, chan, workload, replies, call>>

\* updateOrderStatus, first half: database.updateOrderStatus commits or throws.
PersistStep(j) ==
    /\ Running(j)
    /\ run[j].pc = "persist"
    /\ \/ /\ db' = DbUpdateOrderStatus(db, OrderOf(j).id, run[j].status, CallData(run[j]))
          /\ run' = [run EXCEPT ![j].pc = "notify",
                                ![j].persisted = Append(@, run[j].status)]
          /\ UNCHANGED jobs
       \/ /\ Thrown(j, "database error")
          /\ UNCHANGED db
    /\ UNCHANGED <<waitq, paused, connections, chan, workload, replies>>

Persist(j) ==
    /\ PersistStep(j)
    /\ UNCHANGED call

\* Where processOrder goes on after updateOrderStatus(status) has returned.
AfterNotifySkipsBuild(r) ==
    CASE r.status = ROUTING -> "route"
      [] r.status = BUILDING -> "execute"
      [] r.status = SUBMITTED -> "execute"
      [] r.status = CONFIRMED -> "returned"
      [] r.status = FAILED -> IF r.inCatch THEN "thrown" ELSE "returned"

AfterNotifySwallows(r) ==
    CASE r.status = ROUTING -> "route"
      [] r.status = BUILDING -> "build"
      [] r.status = SUBMITTED -> "execute"
      [] r.status = CONFIRMED -> "returned"
      [] r.status = FAILED -> "returned"

AfterNotify(r) ==
    CASE r.status = ROUTING -> "route"
      [] r.status = BUILDING -> "build"
      [] r.status = SUBMITTED -> "execute"
      [] r.status = CONFIRMED -> "returned"
      [] r.status = FAILED -> IF r.inCatch THEN "thrown" ELSE "returned"

NotifyPropagates(j) ==
    /\ Running(j)
    /\ run[j].pc = "notify"
    /\ \E sendThrows \in BOOLEAN :
          /\ connections' = BroadcastConnections(OrderOf(j).id, sendThrows)
          /\ chan' = BroadcastChan(OrderOf(j).id,
                                   UpdateMessage(run[j].status, CallData(run[j])),
                                   sendThrows)
          /\ LET r == [run[j] EXCEPT !.sent = Append(@, run[j].status)]
                 next == AfterNotify(r)
             IN IF BroadcastTarget(OrderOf(j).id) /= {}
                   /\ BroadcastSentTo(OrderOf(j).id, sendThrows) = {}
                THEN Thrown(j, "send failed")
                ELSE IF next \in {"returned", "thrown"}
                THEN Ended(j, r, next, IF next = "thrown" THEN r.err ELSE "none")
                ELSE /\ run' = [run EXCEPT ![j] = [r EXCEPT !.pc = next]]
                     /\ UNCHANGED jobs
    /\ UNCHANGED <<db, waitq, paused, workload, replies, call>>

\* updateOrderStatus, second half: broadcastOrderUpdate, and the statement
\* after the call.
Notify(j) ==
    /\ Running(j)
    /\ run[j].pc = "notify"
    /\ \E sendThrows \in BOOLEAN :
          /\ connections' = BroadcastConnections(OrderOf(j).id, sendThrows)
          /\ chan' = BroadcastChan(OrderOf(j).id,
                                   UpdateMessage(run[j].status, CallData(run[j])),
                                   sendThrows)
    /\ LET r == [run[j] EXCEPT !.sent = Append(@, run[j].status)]
           next == AfterNotify(r)
       IN IF next \in {"returned", "thrown"}
          THEN Ended(j, r, next, IF next = "thrown" THEN r.err ELSE "none")
          ELSE /\ run' = [run EXCEPT ![j] = [r EXCEPT !.pc = next]]
               /\ UNCHANGED jobs
    /\ UNCHANGED <<db, waitq, paused, workload, replies, call>>

\* What an awaited call gives: a value, or an exception.
Resolves(value) == [threw |-> FALSE, value |-> value]
Throws(error) == [threw |-> TRUE, error |-> error]

\* Normalized prices are numbers, held here in units of 0.0000001.
Prices == {1, 2}

\* What a venue's pool answers to a quote request: a price, or a failure.
QuoteFailed == [ok |-> FALSE, price |-> 0]
QuoteAnswers(prices) == {QuoteFailed} \cup {[ok |-> TRUE, price |-> p] : p \in prices}

getRaydiumQuote(answer) == [dex |-> "raydium", price |-> answer.price]
getMeteoraQuote(answer) == [dex |-> "meteora", price |-> answer.price]

\* price.toFixed(6): the price rounded to six decimals (units of 0.000001).
toFixed6(price) == (price + 5) \div 10

RouteResult(bestQuote, otherQuote, raydiumQuote, meteoraQuote) ==
    [ dex |-> bestQuote.dex,
      bestQuote |-> bestQuote,
      allQuotes |-> <<raydiumQuote, meteoraQuote>>,
      routingReason |-> << bestQuote.dex, "selected: better effective price",
                           toFixed6(bestQuote.price), "vs", toFixed6(otherQuote.price) >> ]

SelectBestDexTieRaydium(raydium, meteora) ==
    IF ~raydium.ok \/ ~meteora.ok
    THEN Throws("DEX routing failed")
    ELSE LET raydiumQuote == getRaydiumQuote(raydium)
             meteoraQuote == getMeteoraQuote(meteora)
         IN IF raydiumQuote.price >= meteoraQuote.price
            THEN Resolves(RouteResult(raydiumQuote, meteoraQuote, raydiumQuote, meteoraQuote))
            ELSE Resolves(RouteResult(meteoraQuote, raydiumQuote, raydiumQuote, meteoraQuote))

SelectBestDexSurvivor(raydium, meteora) ==
    IF ~raydium.ok /\ ~meteora.ok
    THEN Throws("DEX routing failed")
    ELSE LET raydiumQuote == getRaydiumQuote(raydium)
             meteoraQuote == getMeteoraQuote(meteora)
         IN IF meteora.ok /\ (~raydium.ok \/ raydiumQuote.price <= meteoraQuote.price)
            THEN Resolves(RouteResult(meteoraQuote, raydiumQuote, raydiumQuote, meteoraQuote))
            ELSE Resolves(RouteResult(raydiumQuote, meteoraQuote, raydiumQuote, meteoraQuote))

SelectBestDexLowerPrice(raydium, meteora) ==
    IF ~raydium.ok \/ ~meteora.ok
    THEN Throws("DEX routing failed")
    ELSE LET raydiumQuote == getRaydiumQuote(raydium)
             meteoraQuote == getMeteoraQuote(meteora)
         IN IF raydiumQuote.price < meteoraQuote.price
            THEN Resolves(RouteResult(raydiumQuote, meteoraQuote, raydiumQuote, meteoraQuote))
            ELSE Resolves(RouteResult(meteoraQuote, raydiumQuote, raydiumQuote, meteoraQuote))

\* dexRouter.selectBestDex: one quote round. Promise.all rejects when either
\* quote fails; otherwise the higher price is selected, meteora on a tie.
selectBestDex(raydium, meteora) ==
    IF ~raydium.ok \/ ~meteora.ok
    THEN Throws("DEX routing failed")
    ELSE LET raydiumQuote == getRaydiumQuote(raydium)
             meteoraQuote == getMeteoraQuote(meteora)
         IN IF raydiumQuote.price > meteoraQuote.price
            THEN Resolves(RouteResult(raydiumQuote, meteoraQuote, raydiumQuote, meteoraQuote))
            ELSE Resolves(RouteResult(meteoraQuote, raydiumQuote, raydiumQuote, meteoraQuote))

Min(a, b) == IF a < b THEN a ELSE b

RECURSIVE Pow(_, _)
Pow(base, exponent) == IF exponent = 0 THEN 1 ELSE base * Pow(base, exponent - 1)

\* The delay before the retry that follows the failed attempt `attempt`.
BackoffDelay(attempt) == Min(BaseDelay * Pow(BackoffMultiplier, attempt), MaxDelay)

\* The aggregate error of retryWithBackoff.
MaxRetriesExceeded(maxRetries, attempt, lastError) ==
    [ code |-> "MAX_RETRIES_EXCEEDED",
      message |-> <<"Operation failed after", maxRetries + 1, "attempts", lastError>>,
      attempts |-> attempt + 1,
      lastError |-> lastError ]

\* retryWithBackoff from the loop's iteration `attempt` on. operation[k] is
\* what the k-th invocation of the operation gives; sleeps are the delays
\* slept so far.
RECURSIVE RetryLoopOneLess(_, _, _, _)
RetryLoopOneLess(operation, maxRetries, attempt, sleeps) ==
    LET result == operation[attempt + 1] IN
    IF ~result.threw
    THEN [outcome |-> result, invocations |-> attempt + 1, sleeps |-> sleeps]
    ELSE IF attempt + 1 >= maxRetries
    THEN [ outcome |-> Throws(MaxRetriesExceeded(maxRetries - 1, attempt, result.error)),
           invocations |-> attempt + 1, sleeps |-> sleeps ]
    ELSE RetryLoopOneLess(operation, maxRetries, attempt + 1,
                          Append(sleeps, BackoffDelay(attempt)))

RECURSIVE RetryLoopSleepsAfterLast(_, _, _, _)
RetryLoopSleepsAfterLast(operation, maxRetries, attempt, sleeps) ==
    LET result == operation[attempt + 1] IN
    IF ~result.threw
    THEN [outcome |-> result, invocations |-> attempt + 1, sleeps |-> sleeps]
    ELSE IF attempt = maxRetries
    THEN [ outcome |-> Throws(MaxRetriesExceeded(maxRetries, attempt, result.error)),
           invocations |-> attempt + 1,
           sleeps |-> Append(sleeps, BackoffDelay(attempt)) ]
    ELSE RetryLoopSleepsAfterLast(operation, maxRetries, attempt + 1,
                                  Append(sleeps, BackoffDelay(attempt)))

RECURSIVE RetryLoop(_, _, _, _)
RetryLoop(operation, maxRetries, attempt, sleeps) ==
    LET result == operation[attempt + 1] IN
    IF ~result.threw
    THEN [outcome |-> result, invocations |-> attempt + 1, sleeps |-> sleeps]
    ELSE IF attempt = maxRetries
    THEN [ outcome |-> Throws(MaxRetriesExceeded(maxRetries, attempt, result.error)),
           invocations |-> attempt + 1, sleeps |-> sleeps ]
    ELSE RetryLoop(operation, maxRetries, attempt + 1,
                   Append(sleeps, BackoffDelay(attempt)))

retryWithBackoff(operation, maxRetries) == RetryLoop(operation, maxRetries, 0, <<>>)

\* routeOrder as a whole: retryWithBackoff around selectBestDex, with the
\* default maxRetries; rounds[k] holds the venues' answers in the k-th round.
routeOrder(rounds) ==
    LET operation == [k \in 1..Len(rounds) |->
                        selectBestDex(rounds[k].raydium, rounds[k].meteora)]
        result == retryWithBackoff(operation, MaxRetries)
    IN IF result.outcome.threw
       THEN [result EXCEPT !.outcome = Throws("DEX routing failed")]
       ELSE result

RouteStepOneMoreRound(j) ==
    /\ Running(j)
    /\ run[j].pc = "route"
    /\ \E raydium \in QuoteAnswers(Prices), meteora \in QuoteAnswers(Prices) :
         LET result == selectBestDex(raydium, meteora) IN
         IF ~result.threw
         THEN /\ run' = [run EXCEPT ![j].pc = "persist", ![j].status = BUILDING,
                                    ![j].attempt = 0,
                                    ![j].dex = result.value.dex,
                                    ![j].quotes = result.value.allQuotes]
              /\ UNCHANGED jobs
         ELSE IF run[j].attempt = MaxRetries + 1
         THEN Thrown(j, "DEX routing failed")
         ELSE /\ run' = [run EXCEPT ![j].attempt = @ + 1]
              /\ UNCHANGED jobs
    /\ UNCHANGED <<db, waitq, paused, connections, chan, workload, replies>>

\* routeOrder inside processOrder: one round of retryWithBackoff around
\* selectBestDex per step.
RouteStep(j) ==
    /\ Running(j)
    /\ run[j].pc = "route"
    /\ \E raydium \in QuoteAnswers(Prices), meteora \in QuoteAnswers(Prices) :
         LET result == selectBestDex(raydium, meteora) IN
         IF ~result.threw
         THEN /\ run' = [run EXCEPT ![j].pc = "persist", ![j].status = BUILDING,
                                    ![j].attempt = 0,
                                    ![j].dex = result.value.dex,
                                    ![j].quotes = result.value.allQuotes]
              /\ UNCHANGED jobs
         ELSE IF run[j].attempt = MaxRetries
         THEN Thrown(j, "DEX routing failed")
         ELSE /\ run' = [run EXCEPT ![j].attempt = @ + 1]
              /\ UNCHANGED jobs
    /\ UNCHANGED <<db, waitq, paused, connections, chan, workload, replies>>

Route(j) ==
    /\ RouteStep(j)
    /\ UNCHANGED call

\* buildTransaction: the simulated delay.
Build(j) ==
    /\ Running(j)
    /\ run[j].pc = "build"
    /\ run' = [run EXCEPT ![j].pc = "persist", ![j].status = SUBMITTED]
    /\ UNCHANGED <<db, jobs, waitq, paused, connections, chan, workload, replies, call>>

ExecuteWithoutCatch(j) ==
    /\ Running(j)
    /\ run[j].pc = "execute"
    /\ \E result \in {"success", "failure", "throws"} :
         IF result = "throws"
         THEN /\ run' = [run EXCEPT ![j].pc = "persist",
                                    ![j].exec = result,
                                    ![j].swaps = Append(@, run[j].dex),
                                    ![j].status = FAILED,
                                    ![j].inCatch = TRUE,
                                    ![j].err = "swap failed"]
              /\ UNCHANGED jobs
         ELSE /\ run' = [run EXCEPT ![j].pc = "persist",
                                    ![j].exec = result,
                                    ![j].swaps = Append(@, run[j].dex),
                                    ![j].status = IF result = "success"
                                                  THEN CONFIRMED ELSE FAILED,
                                    ![j].txHash = IF result = "success"
                                                  THEN "tx" ELSE Undefined,
                                    ![j].err = IF result = "success" THEN run[j].err
                                               ELSE "swap failed"]
              /\ UNCHANGED jobs
    /\ UNCHANGED <<db, waitq, paused, connections, chan, workload, replies, call>>

ExecuteFallsBack(j) ==
    /\ Running(j)
    /\ run[j].pc = "execute"
    /\ \E result \in {"success", "failure", "throws"} :
         run' = [run EXCEPT ![j].pc = "persist",
                            ![j].exec = result,
                            ![j].swaps = IF result = "success"
                                         THEN Append(@, run[j].dex)
                                         ELSE @ \o << run[j].dex,
                                                      IF run[j].dex = "raydium"
                                                      THEN "meteora" ELSE "raydium" >>,
                            ![j].status = IF result = "success" THEN CONFIRMED ELSE FAILED,
                            ![j].txHash = IF result = "success" THEN "tx" ELSE Undefined,
                            ![j].err = IF result = "success" THEN run[j].err
                                       ELSE "swap failed"]
    /\ UNCHANGED <<db, jobs, waitq, paused, connections, chan, workload, replies, call>>

\* executeOrder: dexRouter.executeSwap succeeds with a transaction hash, reports
\* failure or throws (a throw is caught and turned into {success: false, error}).
ExecuteStep(j) ==
    /\ Running(j)
    /\ run[j].pc = "execute"
    /\ \E result \in {"success", "failure", "throws"} :
         run' = [run EXCEPT ![j].pc = "persist",
                            ![j].exec = result,
                            ![j].swaps = Append(@, run[j].dex),
                            ![j].status = IF result = "success" THEN CONFIRMED ELSE FAILED,
                            ![j].txHash = IF result = "success" THEN "tx" ELSE Undefined,
                            ![j].err = IF result = "success" THEN run[j].err
                                       ELSE "swap failed"]
    /\ UNCHANGED <<db, jobs, waitq, paused, connections, chan, workload, replies>>

Execute(j) ==
    /\ ExecuteStep(j)
    /\ UNCHANGED call

\* The worker that holds the job dies; the queue finds the job stalled and
\* moves it back to waiting.
Stalled(j) ==
    /\ Running(j)
    /\ jobs[j].stalledCount < MaxStalls
    /\ jobs' = [jobs EXCEPT ![j].state = "waiting", ![j].stalledCount = @ + 1]
    /\ waitq' = Append(waitq, j)
    /\ run' = [run EXCEPT ![j].pc = "ended", ![j].outcome = "abandoned"]
    /\ UNCHANGED <<db, paused, connections, chan, workload, replies, call>>

\* ------------------------------------------------------------ the route
\* Amounts are JavaScript numbers, held here in halves: 20 is the amount 10,
\* 1 is the amount 0.5.
Requests ==
    { [tokenIn |-> "SOL", tokenOut |-> "USDC", amountIn |-> 20],
      [tokenIn |-> "USDC", tokenOut |-> "USDC", amountIn |-> 10],
      [tokenIn |-> "SOL", tokenOut |-> "USDC", amountIn |-> 0],
      [tokenIn |-> "", tokenOut |-> "USDC", amountIn |-> 2],
      [tokenIn |-> "SOL", tokenOut |-> "USDC", amountIn |-> 1] }

\* executeOrderSchema: both tokens of length >= 1, amountIn >= 0.000001.
SchemaAccepts(req) ==
    /\ req.tokenIn /= ""
    /\ req.tokenOut /= ""
    /\ req.amountIn >= 1

IsInteger(number) == number % 2 = 0

Returns(isValid, error) == [threw |-> FALSE, isValid |-> isValid, error |-> error]

\* BigInt(number) of a number that is not an integer throws a RangeError.
RangeError == [threw |-> TRUE, isValid |-> FALSE, error |-> "RangeError"]

ValidateAcceptsEqualTokens(order) ==
    IF order.tokenIn = "" \/ order.tokenOut = ""
    THEN Returns(FALSE, "Token addresses are required")
    ELSE IF ~IsInteger(order.amountIn)
    THEN RangeError
    ELSE IF order.amountIn <= 0
    THEN Returns(FALSE, "Amount must be greater than zero")
    ELSE Returns(TRUE, Undefined)

validateMarketOrder(order) ==
    IF order.tokenIn = "" \/ order.tokenOut = ""
    THEN Returns(FALSE, "Token addresses are required")
    ELSE IF order.tokenIn = order.tokenOut
    THEN Returns(FALSE, "Input and output tokens must be different")
    ELSE IF ~IsInteger(order.amountIn)
    THEN RangeError
    ELSE IF order.amountIn <= 0
    THEN Returns(FALSE, "Amount must be greater than zero")
    ELSE IF order.type /= "market"
    THEN Returns(FALSE, "This engine only processes market orders")
    ELSE Returns(TRUE, Undefined)

Reply(code, message) == [code |-> code, message |-> message]

SubmitEnqueuesTwice ==
    /\ Len(replies) < NumOrders
    /\ \E req \in Requests :
        LET order == [id |-> Len(replies) + 1, type |-> "market",
                      tokenIn |-> req.tokenIn, tokenOut |-> req.tokenOut,
                      amountIn |-> req.amountIn]
        IN /\ SchemaAccepts(req)
           /\ validateMarketOrder(order).isValid
           /\ db' = MapSet(db, order.id, NewRow(order.type))
           /\ jobs' = jobs \o <<NewJob(order), NewJob(order)>>
           /\ waitq' = waitq \o <<Len(jobs) + 1, Len(jobs) + 2>>
           /\ run' = run \o <<IdleRun, IdleRun>>
           /\ replies' = Append(replies, Reply(201, "Order submitted successfully"))
    /\ UNCHANGED <<paused, connections, chan, workload, call>>

\* POST /api/orders/execute. The order id is a fresh uuid: here the number of
\* the request. The body passes the route's schema before the handler runs; an
\* exception in the handler is answered with 500.
Submit ==
    /\ Len(replies) < NumOrders
    /\ \E req \in Requests :
        LET order == [id |-> Len(replies) + 1, type |-> "market",
                      tokenIn |-> req.tokenIn, tokenOut |-> req.tokenOut,
                      amountIn |-> req.amountIn]
        IN IF ~SchemaAccepts(req)
           THEN /\ replies' = Append(replies, Reply(400, "Bad Request"))
                /\ UNCHANGED <<db, jobs, waitq, run>>
           ELSE IF validateMarketOrder(order).threw
           THEN /\ replies' = Append(replies, Reply(500, validateMarketOrder(order).error))
                /\ UNCHANGED <<db, jobs, waitq, run>>
           ELSE IF ~validateMarketOrder(order).isValid
           THEN /\ replies' = Append(replies, Reply(400, validateMarketOrder(order).error))
                /\ UNCHANGED <<db, jobs, waitq, run>>
           ELSE \/ /\ db' = MapSet(db, order.id, NewRow(order.type))
                   /\ AddOrderEffect(order)
                   /\ replies' = Append(replies, Reply(201, "Order submitted successfully"))
                \/ \* createOrder throws
                   /\ replies' = Append(replies, Reply(500, "database error"))
                   /\ UNCHANGED <<db, jobs, waitq, run>>
                \/ \* addOrder throws
                   /\ db' = MapSet(db, order.id, NewRow(order.type))
                   /\ replies' = Append(replies, Reply(500, "queue error"))
                   /\ UNCHANGED <<jobs, waitq, run>>
    /\ UNCHANGED <<paused, connections, chan, workload, call>>

\* ---------------------------------------------------- the specifications
Channels == 1..NumChannels

NoCall == [fn |-> "none"]

InitCommon ==
    /\ jobs = <<>>
    /\ waitq = <<>>
    /\ run = <<>>
    /\ paused = FALSE
    /\ connections = <<>>
    /\ replies = <<>>
    /\ call = NoCall

Init ==
    /\ InitCommon
    /\ db = <<>>
    /\ chan = [c \in Channels |-> NoChan]
    /\ workload = <<>>

Next ==
    \/ Submit
    \/ Dispatch
    \/ \E j \in JobIds : Persist(j)
    \/ \E j \in JobIds : Notify(j)
    \/ \E j \in JobIds : Route(j)
    \/ \E j \in JobIds : Build(j)
    \/ \E j \in JobIds : Execute(j)
    \/ \E j \in JobIds : Stalled(j)
    \/ \E j \in JobIds : PromoteDelayed(j)
    \/ \E c \in DOMAIN chan, o \in 1..NumOrders : Subscribe(c, o)
    \/ \E c \in DOMAIN chan : SnapshotRead(c)
    \/ \E c \in DOMAIN chan : SnapshotSend(c)
    \/ \E c \in DOMAIN chan : SocketClosing(c)
    \/ \E c \in DOMAIN chan : SocketClose(c)
    \/ \E c \in DOMAIN chan : SocketError(c)
    \/ HeartbeatInterval

Spec == Init /\ [][Next]_vars

LoadWorkload == [i \in 1..LoadOrders |-> [id |-> i, type |-> "market"]]

MixedOrders == [id : 1..MixIds, type : AnyType]

MixedWorkloads == [1..MixJobs -> MixedOrders]

InitQueue ==
    /\ InitCommon
    /\ db = <<>>
    /\ chan = [c \in Channels |-> NoChan]
    /\ workload \in {LoadWorkload} \cup MixedWorkloads

NextQueue ==
    \/ addOrder
    \/ Dispatch
    \/ \E j \in JobIds : MockProcessOrder(j)
    \/ pauseQueue
    \/ resumeQueue

SpecQueue == InitQueue /\ [][NextQueue]_vars

\* The worker keeps fetching while it may, and a processor that was called
\* runs to its end; the calls of addOrder, pauseQueue and resumeQueue are the
\* caller's and come when they come.
SpecQueueLive ==
    /\ InitQueue
    /\ [][NextQueue]_vars
    /\ WF_vars(Dispatch)
    /\ WF_vars(\E j \in JobIds : MockProcessOrder(j))

\* WebSocketManager alone, as in its unit tests: connections are opened for
\* order ids, the stored order is read for the snapshot, and
\* broadcastOrderUpdate is called directly.
WsOrderIds == 1..WsOrders

ConfirmedRow ==
    [NewRow("market") EXCEPT !.status = CONFIRMED, !.txHash = "tx",
                             !.executedAt = "date", !.dex = "meteora"]

\* Order 1 is stored, PENDING or CONFIRMED; no other order is.
WsTables == {MapSet(<<>>, 1, row) : row \in {NewRow("market"), ConfirmedRow}}

WsStatuses == {ROUTING, CONFIRMED}

InitWs ==
    /\ InitCommon
    /\ db \in WsTables
    /\ chan = [c \in 1..WsChannels |-> NoChan]
    /\ workload = <<>>

NextWs ==
    \/ \E c \in DOMAIN chan, o \in WsOrderIds : Subscribe(c, o)
    \/ \E c \in DOMAIN chan : SnapshotRead(c)
    \/ \E c \in DOMAIN chan : SnapshotSend(c)
    \/ \E c \in DOMAIN chan : SocketClosing(c)
    \/ \E c \in DOMAIN chan : SocketClose(c)
    \/ \E c \in DOMAIN chan : SocketError(c)
    \/ \E o \in WsOrderIds, status \in WsStatuses : broadcastOrderUpdate(o, status)
    \/ sendHeartbeat

SpecWs == InitWs /\ [][NextWs]_vars

\* The queue and the engine with no subscriber, observed through spies: per
\* order id, the calls of dexRouter.selectBestDex, the calls of
\* dexRouter.executeSwap that succeeded, and the commits of FAILED.
NoSpy == [fn |-> "spy", selectBestDex |-> <<>>, swapped |-> <<>>, failed |-> <<>>]

Count(spy, orderId) == IF orderId \in DOMAIN spy THEN spy[orderId] ELSE 0

Counted(spy, orderId) == MapSet(spy, orderId, Count(spy, orderId) + 1)

PersistSpied(j) ==
    /\ PersistStep(j)
    /\ call' = IF run'[j].pc = "notify" /\ run[j].status = FAILED
               THEN [call EXCEPT !.failed = Counted(@, OrderOf(j).id)]
               ELSE call

RouteSpied(j) ==
    /\ RouteStep(j)
    /\ call' = [call EXCEPT !.selectBestDex = Counted(@, OrderOf(j).id)]

ExecuteSpied(j) ==
    /\ ExecuteStep(j)
    /\ call' = IF run'[j].exec = "success"
               THEN [call EXCEPT !.swapped = Counted(@, OrderOf(j).id)]
               ELSE call

InitEngine ==
    /\ db = <<>>
    /\ jobs = <<>>
    /\ waitq = <<>>
    /\ run = <<>>
    /\ paused = FALSE
    /\ connections = <<>>
    /\ chan = <<>>
    /\ workload = <<>>
    /\ replies = <<>>
    /\ call = NoSpy

NextEngine ==
    \/ Submit
    \/ Dispatch
    \/ \E j \in JobIds : PersistSpied(j)
    \/ \E j \in JobIds : Notify(j)
    \/ \E j \in JobIds : RouteSpied(j)
    \/ \E j \in JobIds : Build(j)
    \/ \E j \in JobIds : ExecuteSpied(j)
    \/ \E j \in JobIds : Stalled(j)
    \/ \E j \in JobIds : PromoteDelayed(j)

SpecEngine == InitEngine /\ [][NextEngine]_vars

\* The functions of the program called on their own, one call in a behaviour,
\* on inputs of every shape.
Tokens == {"", "SOL", "USDC"}
Amounts == (0 - MaxAmount)..MaxAmount
OrderInputs ==
    [id : {1}, type : AnyType, tokenIn : Tokens, tokenOut : Tokens, amountIn : Amounts]

CallValidateMarketOrder ==
    /\ call = NoCall
    /\ \E order \in OrderInputs :
          call' = [fn |-> "validateMarketOrder", order |-> order,
                   result |-> validateMarketOrder(order)]
    /\ UNCHANGED <<db, jobs, waitq, run, paused, connections, chan, workload, replies>>

PriceInputs == 0..MaxPrice

CallSelectBestDex ==
    /\ call = NoCall
    /\ \E raydium \in QuoteAnswers(PriceInputs), meteora \in QuoteAnswers(PriceInputs) :
          call' = [fn |-> "selectBestDex", raydium |-> raydium, meteora |-> meteora,
                   result |-> selectBestDex(raydium, meteora)]
    /\ UNCHANGED <<db, jobs, waitq, run, paused, connections, chan, workload, replies>>

\* What one invocation of the wrapped operation gives.
OperationResults ==
    {Resolves("value"), Resolves("value B"), Throws("error A"), Throws("error B")}

CallRetryWithBackoff ==
    /\ call = NoCall
    /\ \E maxRetries \in 0..MaxRetriesArg :
          \E operation \in [1..(maxRetries + 1) -> OperationResults] :
              call' = [fn |-> "retryWithBackoff", operation |-> operation,
                       maxRetries |-> maxRetries,
                       result |-> retryWithBackoff(operation, maxRetries)]
    /\ UNCHANGED <<db, jobs, waitq, run, paused, connections, chan, workload, replies>>

CallRouteOrder ==
    /\ call = NoCall
    /\ \E rounds \in [1..(MaxRetries + 1) ->
                         [raydium : QuoteAnswers(Prices), meteora : QuoteAnswers(Prices)]] :
          call' = [fn |-> "routeOrder", rounds |-> rounds, result |-> routeOrder(rounds)]
    /\ UNCHANGED <<db, jobs, waitq, run, paused, connections, chan, workload, replies>>

\* Database.updateOrderStatus on a table that holds order 1: rows of every
\* status, with each optional column NULL or set; partials with each field
\* absent or given. The transaction commits, or throws and is rolled back.
StoredRows ==
    [ type : {"market"}, status : OrderStatus, retryCount : 0..MaxRetryCount,
      txHash : {Null, "tx0"}, executedAt : {Null, "date0"},
      errorMessage : {Null, "error0"}, dex : {Null, "raydium"} ]

Partials ==
    [ txHash : {Undefined, "tx"}, executedAt : {Undefined, "date"},
      errorMessage : {Undefined, "swap failed"}, dex : {Undefined, "meteora"} ]

CallUpdateOrderStatus ==
    /\ call = NoCall
    /\ \E row \in StoredRows, orderId \in {1, 2}, status \in OrderStatus,
          data \in Partials, commits \in BOOLEAN :
          LET table == MapSet(<<>>, 1, row) IN
          call' = [ fn |-> "updateOrderStatus", table |-> table, orderId |-> orderId,
                    status |-> status, data |-> data,
                    result |-> IF commits
                               THEN [ threw |-> FALSE,
                                      table |-> DbUpdateOrderStatus(table, orderId,
                                                                    status, data) ]
                               ELSE [threw |-> TRUE, table |-> table] ]
    /\ UNCHANGED <<db, jobs, waitq, run, paused, connections, chan, workload, replies>>

InitFn ==
    /\ InitCommon
    /\ db = <<>>
    /\ chan = [c \in Channels |-> NoChan]
    /\ workload = <<>>

NextFn ==
    \/ CallValidateMarketOrder
    \/ CallSelectBestDex
    \/ CallRetryWithBackoff
    \/ CallRouteOrder
    \/ CallUpdateOrderStatus

SpecFn == InitFn /\ [][NextFn]_vars

\* ================================================================ claims
Last(seq) == seq[Len(seq)]
Has(seq, x) == \E i \in 1..Len(seq) : seq[i] = x
RowOf(j) == db[OrderOf(j).id]
Finished(j) == run[j].pc = "ended" /\ run[j].outcome \in {"returned", "thrown"}
JobsOf(orderId) == {j \in JobIds : jobs[j].data.orderId = orderId}

\* C1: once the queue is done with an accepted order's job (completed, or
\* failed after its attempts), the order's persisted status is CONFIRMED or
\* FAILED; no order is left in PENDING, ROUTING, BUILDING or SUBMITTED.
C1_TerminalWhenJobFinal ==
    \A j \in JobIds :
        jobs[j].state \in {"completed", "failed"}
            => RowOf(j).status \in {CONFIRMED, FAILED}

\* C2 as stated: the statuses a subscriber is sent follow PENDING, ROUTING,
\* BUILDING, SUBMITTED, then CONFIRMED or FAILED, each next one the successor
\* of the one before.
LifecycleStep ==
    { <<PENDING, ROUTING>>, <<ROUTING, BUILDING>>, <<BUILDING, SUBMITTED>>,
      <<SUBMITTED, CONFIRMED>>, <<SUBMITTED, FAILED>> }

Prefixes(seq) == {SubSeq(seq, 1, n) : n \in 0..Len(seq)}

RunBroadcasts ==
    Prefixes(<<ROUTING, BUILDING, SUBMITTED, CONFIRMED>>)
        \cup {Append(p, FAILED) : p \in Prefixes(<<ROUTING, BUILDING, SUBMITTED>>)}

C3_ActiveAtMostConcurrency ==
    /\ Cardinality(ActiveJobs) <= Concurrency
    /\ \A j \in JobIds :
          /\ jobs[j].state \in {"waiting", "active", "completed"}
          /\ jobs[j].state = "waiting" <=> j \in WaitingJobs
    /\ Cardinality(WaitingJobs) = Len(waitq)

\* The pool is full and a job is waiting behind it.
C3_Witness ==
    /\ Cardinality(ActiveJobs) = Concurrency
    /\ waitq /= <<>>
    /\ Len(jobs) > Concurrency

C5_AddOrderIdempotent ==
    \A j \in JobIds : Cardinality(JobsOf(jobs[j].data.orderId)) = 1

\* C6: the job a dispatch takes is of the highest class waiting: sniper before
\* market, market before limit, limit before any other type.
ClassRank(type) ==
    CASE type = "sniper" -> 0
      [] type = "market" -> 1
      [] type = "limit" -> 2
      [] OTHER -> 3

C6_HighestClassFirst ==
    [][\A j \in JobIds :
          (jobs[j].state = "waiting" /\ jobs'[j].state = "active")
              => \A k \in JobIds :
                    jobs[k].state = "waiting"
                        => ClassRank(OrderOf(j).type) <= ClassRank(OrderOf(k).type)]_vars

\* A sniper order added last was taken while a limit order added before it
\* still waits.
C6_Witness ==
    \E j \in JobIds, k \in JobIds :
        /\ j < k
        /\ OrderOf(j).type = "limit" /\ jobs[j].state = "waiting"
        /\ OrderOf(k).type = "sniper" /\ jobs[k].state = "active"

\* C7: a job's priority depends on the order type alone (sniper 0, market 1,
\* limit 2, otherwise 3), its payload is {orderId, order}, its delay 0.
C7_PriorityByType ==
    \A j \in JobIds :
        /\ jobs[j].priority = ClassRank(workload[j].type)
        /\ jobs[j].data = [orderId |-> workload[j].id, order |-> workload[j]]
        /\ jobs[j].delay = 0

\* Jobs of three different types, one outside the enum, are in the queue.
C7_Witness ==
    /\ Len(jobs) = MixJobs
    /\ \E j \in JobIds : OrderOf(j).type = "other"
    /\ \E j \in JobIds : OrderOf(j).type = "sniper"
    /\ Cardinality({OrderOf(j).type : j \in JobIds}) = 3

\* C8: a job whose runs all throw is run Attempts (3) times and is then
\* failed; thrown runs never exceed 3, and a run that returned is the last.
C8_ThreeAttempts ==
    \A j \in JobIds :
        /\ jobs[j].attemptsMade <= Attempts
        /\ jobs[j].state = "failed" <=> jobs[j].attemptsMade = Attempts
        /\ jobs[j].invocations =
              jobs[j].attemptsMade + jobs[j].returns + jobs[j].stalledCount
                  + (IF j \in ActiveJobs THEN 1 ELSE 0)
        /\ jobs[j].returns <= 1
        /\ jobs[j].returns = 1 <=> jobs[j].state = "completed"

\* A job is failed after exactly three runs, each of which threw.
C8_Witness ==
    \E j \in JobIds :
        /\ jobs[j].state = "failed"
        /\ jobs[j].invocations = 3
        /\ jobs[j].stalledCount = 0

\* C9 as stated: a run in which a step threw persists FAILED with the
\* exception's message, broadcasts FAILED and re-raises that exception.
C9_AlwaysPersistsFailed ==
    \A j \in JobIds :
        (Finished(j) /\ run[j].inCatch)
            => /\ run[j].outcome = "thrown"
               /\ run[j].persisted /= <<>> /\ Last(run[j].persisted) = FAILED
               /\ run[j].sent /= <<>> /\ Last(run[j].sent) = FAILED
               /\ run[j].raised = run[j].err

\* C9 as amended: such a run never returns normally; when the catch block's
\* persist of FAILED commits, the row holds FAILED with the exception's
\* message, FAILED is broadcast last and the same exception is re-raised; when
\* that persist throws, FAILED is neither persisted nor broadcast and the
\* database error is raised.
C9_CatchRaises ==
    \A j \in JobIds :
        /\ run[j].inCatch => run[j].outcome /= "returned"
        /\ (Finished(j) /\ run[j].inCatch) =>
              IF Has(run[j].persisted, FAILED)
              THEN /\ Last(run[j].persisted) = FAILED
                   /\ Last(run[j].sent) = FAILED
                   /\ run[j].raised = run[j].err
                   /\ RowOf(j).status = FAILED
                   /\ RowOf(j).errorMessage = run[j].err
              ELSE /\ ~Has(run[j].sent, FAILED)
                   /\ run[j].raised = "database error"

\* Routing failed after its rounds; FAILED was persisted and broadcast after
\* ROUTING and the routing error was re-raised.
C9_Witness ==
    \E j \in JobIds :
        /\ Finished(j)
        /\ run[j].err = "DEX routing failed"
        /\ run[j].raised = "DEX routing failed"
        /\ run[j].persisted = <<ROUTING, FAILED>>
        /\ run[j].sent = <<ROUTING, FAILED>>

\* C10 as stated: when execute reports failure or throws, the run persists
\* FAILED with the adapter's message, broadcasts it, persists no CONFIRMED and
\* returns, and the job is not retried.
C10_ExecFailureReturns ==
    \A j \in JobIds :
        (Finished(j) /\ run[j].exec \in {"failure", "throws"})
            => /\ run[j].outcome = "returned"
               /\ jobs[j].state = "completed"
               /\ ~Has(run[j].persisted, CONFIRMED)
               /\ RowOf(j).status = FAILED
               /\ RowOf(j).errorMessage = "swap failed"

\* C10 as amended: such a run never persists CONFIRMED and calls execute
\* once; when its persist of FAILED commits, the row holds FAILED with the
\* adapter's message, FAILED is broadcast, the run returns and the job is
\* completed, not retried; when that persist throws, the run goes through the
\* catch block with the database error and raises, so the job is retried or
\* failed.
C10_ExecFailure ==
    \A j \in JobIds :
        (Finished(j) /\ run[j].exec \in {"failure", "throws"})
            => /\ ~Has(run[j].persisted, CONFIRMED)
               /\ Len(run[j].swaps) = 1
               /\ IF ~run[j].inCatch
                  THEN /\ run[j].outcome = "returned"
                       /\ jobs[j].state = "completed"
                       /\ run[j].persisted = <<ROUTING, BUILDING, SUBMITTED, FAILED>>
                       /\ run[j].sent = <<ROUTING, BUILDING, SUBMITTED, FAILED>>
                       /\ RowOf(j).status = FAILED
                       /\ RowOf(j).errorMessage = "swap failed"
                  ELSE /\ run[j].outcome = "thrown"
                       /\ run[j].err = "database error"
                       /\ jobs[j].state /= "completed"
                       /\ jobs[j].attemptsMade >= 1

\* The adapter threw in the job's first run; FAILED is persisted with its
\* message and the job is completed without a second run.
C10_Witness ==
    \E j \in JobIds :
        /\ Finished(j)
        /\ run[j].exec = "throws"
        /\ run[j].outcome = "returned"
        /\ jobs[j].state = "completed"
        /\ jobs[j].invocations = 1
        /\ RowOf(j).errorMessage = "swap failed"

\* C11: a run in which routing, every persist and the execution succeed makes
\* exactly four persists and four broadcasts, ROUTING, BUILDING, SUBMITTED,
\* CONFIRMED in this order, each once, and the CONFIRMED persist stores the
\* adapter's transaction hash.
C11_FourPersistsFourBroadcasts ==
    \A j \in JobIds :
        (Finished(j) /\ run[j].exec = "success" /\ ~run[j].inCatch)
            => /\ run[j].persisted = <<ROUTING, BUILDING, SUBMITTED, CONFIRMED>>
               /\ run[j].sent = <<ROUTING, BUILDING, SUBMITTED, CONFIRMED>>
               /\ run[j].outcome = "returned"
               /\ RowOf(j).status = CONFIRMED
               /\ run[j].txHash /= Undefined
               /\ RowOf(j).txHash = run[j].txHash

\* A job's first run went through all four transitions and the row holds the
\* transaction hash and the venue.
C11_Witness ==
    \E j \in JobIds :
        /\ Finished(j)
        /\ run[j].exec = "success"
        /\ jobs[j].invocations = 1
        /\ run[j].persisted = <<ROUTING, BUILDING, SUBMITTED, CONFIRMED>>
        /\ RowOf(j).txHash = "tx"
        /\ RowOf(j).dex = run[j].dex

\* C12 as stated: validateMarketOrder returns, for every order, invalid with
\* the first matching reason in the order empty token, equal tokens,
\* amount <= 0, type not market, and otherwise valid with no error.
C12_ValidateReturnsFirstReason ==
    call.fn = "validateMarketOrder" =>
        LET order == call.order
            expected ==
                IF order.tokenIn = "" \/ order.tokenOut = ""
                THEN <<FALSE, "Token addresses are required">>
                ELSE IF order.tokenIn = order.tokenOut
                THEN <<FALSE, "Input and output tokens must be different">>
                ELSE IF order.amountIn <= 0
                THEN <<FALSE, "Amount must be greater than zero">>
                ELSE IF order.type /= "market"
                THEN <<FALSE, "This engine only processes market orders">>
                ELSE <<TRUE, Undefined>>
        IN /\ ~call.result.threw
           /\ <<call.result.isValid, call.result.error>> = expected

\* C13: a submission that fails validation creates no order row and no job;
\* a job exists only for an order that passed validation (tokens present and
\* different, amount positive, type market) and whose row was created, PENDING
\* with retryCount 0, in the step that enqueued it.
C13_State ==
    /\ \A i \in 1..Len(replies) :
          replies[i].code = 400 => i \notin DOMAIN db /\ JobsOf(i) = {}
    /\ \A j \in JobIds :
          /\ OrderOf(j).id \in DOMAIN db
          /\ OrderOf(j).tokenIn /= "" /\ OrderOf(j).tokenOut /= ""
          /\ OrderOf(j).tokenIn /= OrderOf(j).tokenOut
          /\ OrderOf(j).amountIn > 0
          /\ OrderOf(j).type = "market"
          /\ replies[OrderOf(j).id].code = 201

C13_OnlyValidOrdersQueued ==
    [][/\ C13_State'
       /\ \A j \in 1..Len(jobs') :
             j \notin JobIds =>
                 /\ jobs'[j].data.orderId \notin DOMAIN db
                 /\ db'[jobs'[j].data.orderId].status = PENDING
                 /\ db'[jobs'[j].data.orderId].retryCount = 0]_vars

\* The submission with equal tokens was rejected and left nothing behind.
C13_Witness ==
    /\ replies = <<Reply(400, "Input and output tokens must be different")>>
    /\ db = <<>>
    /\ jobs = <<>>

\* C14: given both venues' prices, selectBestDex selects the venue with the
\* strictly higher price and meteora when they are equal; the selected price
\* is never lower than the other; the justification names the selected venue
\* and both prices (selected first), each written with six decimals.
C14_SelectsHigherPrice ==
    (call.fn = "selectBestDex" /\ call.raydium.ok /\ call.meteora.ok) =>
        /\ ~call.result.threw
        /\ LET r == call.result.value
               selected == IF r.dex = "raydium" THEN call.raydium.price
                           ELSE call.meteora.price
               other == IF r.dex = "raydium" THEN call.meteora.price
                        ELSE call.raydium.price
           IN /\ call.raydium.price > call.meteora.price => r.dex = "raydium"
              /\ call.raydium.price < call.meteora.price => r.dex = "meteora"
              /\ call.raydium.price = call.meteora.price => r.dex = "meteora"
              /\ r.bestQuote.dex = r.dex
              /\ r.bestQuote.price = selected
              /\ selected >= other
              /\ r.routingReason[1] = r.dex
              /\ 10 * r.routingReason[3] - 5 <= selected
              /\ selected < 10 * r.routingReason[3] + 5
              /\ 10 * r.routingReason[5] - 5 <= other
              /\ other < 10 * r.routingReason[5] + 5

\* Both venues quoted the same price and meteora was selected.
C14_Witness ==
    /\ call.fn = "selectBestDex"
    /\ call.raydium.ok /\ call.meteora.ok
    /\ call.raydium.price = call.meteora.price
    /\ call.raydium.price > 0
    /\ ~call.result.threw
    /\ call.result.value.dex = "meteora"

\* C15: a quote round gives a RouteResult only when both venues quoted in
\* that round, and fails as a whole when either did not; a RouteResult lists
\* both quotes and its selected quote is one of them; routeOrder's result
\* comes from the first round in which both venues quoted, every earlier round
\* having failed as a whole, and routeOrder fails when no round had both.
C15_RoundOk(round) == round.raydium.ok /\ round.meteora.ok

C15_BothQuotesOrNothing ==
    /\ call.fn = "selectBestDex" =>
          /\ call.result.threw <=> ~(call.raydium.ok /\ call.meteora.ok)
          /\ ~call.result.threw =>
                LET r == call.result.value IN
                /\ r.allQuotes = << [dex |-> "raydium", price |-> call.raydium.price],
                                    [dex |-> "meteora", price |-> call.meteora.price] >>
                /\ r.bestQuote \in {r.allQuotes[1], r.allQuotes[2]}
    /\ call.fn = "routeOrder" =>
          LET n == call.result.invocations IN
          /\ n \in 1..(MaxRetries + 1)
          /\ \A k \in 1..(n - 1) : ~C15_RoundOk(call.rounds[k])
          /\ IF call.result.outcome.threw
             THEN n = MaxRetries + 1 /\ ~C15_RoundOk(call.rounds[n])
             ELSE /\ C15_RoundOk(call.rounds[n])
                  /\ call.result.outcome.value.allQuotes =
                        << [dex |-> "raydium", price |-> call.rounds[n].raydium.price],
                           [dex |-> "meteora", price |-> call.rounds[n].meteora.price] >>
                  /\ call.result.outcome.value.bestQuote
                        \in { call.result.outcome.value.allQuotes[1],
                              call.result.outcome.value.allQuotes[2] }

\* In the first round only meteora quoted; the second round, with both
\* quotes, gave the result.
C15_Witness ==
    /\ call.fn = "routeOrder"
    /\ ~call.rounds[1].raydium.ok /\ call.rounds[1].meteora.ok
    /\ C15_RoundOk(call.rounds[2])
    /\ call.result.invocations = 2
    /\ ~call.result.outcome.threw

\* C16 as stated: retryWithBackoff called with the count n around an
\* operation that always throws invokes it exactly n times and raises an
\* aggregate error with attempts = n and the last error's message.
C16_AllThrow ==
    /\ call.fn = "retryWithBackoff"
    /\ \A k \in DOMAIN call.operation : call.operation[k].threw

C16_InvokedNTimes ==
    C16_AllThrow =>
        /\ call.result.invocations = call.maxRetries
        /\ call.result.outcome.threw
        /\ call.result.outcome.error.attempts = call.maxRetries
        /\ call.result.outcome.error.lastError
              = call.operation[call.result.invocations].error

\* C16 as amended: called with maxRetries = n it invokes the operation
\* exactly n + 1 times (the first attempt and n retries), sleeps n times, and
\* raises an aggregate error with attempts = n + 1 and the message of the
\* last error thrown.
C16_InvokedNPlusOneTimes ==
    C16_AllThrow =>
        /\ call.result.invocations = call.maxRetries + 1
        /\ Len(call.result.sleeps) = call.maxRetries
        /\ call.result.outcome.threw
        /\ call.result.outcome.error.attempts = call.maxRetries + 1
        /\ call.result.outcome.error.lastError
              = call.operation[call.maxRetries + 1].error
        /\ call.result.outcome.error.message[2] = call.maxRetries + 1

\* The default of three retries: four invocations, the last error reported.
C16_Witness ==
    /\ C16_AllThrow
    /\ call.maxRetries = MaxRetries
    /\ call.operation[MaxRetries + 1].error = "error B"
    /\ call.operation[MaxRetries].error = "error A"
    /\ call.result.invocations = 4
    /\ call.result.outcome.error.attempts = 4
    /\ call.result.outcome.error.lastError = "error B"

\* C17 as stated: after a second channel has subscribed for an order id, a
\* broadcast for the id is sent exactly once, to the latest channel subscribed
\* for it (while that channel is open and its send works), and to no other.
C17_IsLatest(c, orderId) ==
    /\ chan[c].state = "open"
    /\ chan[c].orderId = orderId
    /\ \A d \in DOMAIN chan : chan[d].orderId = orderId => chan[d].seq <= chan[c].seq

C17_BroadcastToLatestChannel ==
    [][\A o \in WsOrderIds, status \in WsStatuses :
          broadcastOrderUpdate(o, status) =>
              \A c \in DOMAIN chan :
                  (C17_IsLatest(c, o) /\ chan'[c].state = "open")
                      => /\ call'.sentTo = {c}
                         /\ chan'[c].recv =
                               Latest(Append(chan[c].recv, UpdateMessage(status, NoData)))]_vars

\* C18 as stated: the message a channel is sent on subscribe carries the
\* order's current persisted status, txHash, error and dex.
C18_SnapshotIsCurrentRow ==
    [][\A c \in DOMAIN chan :
          (chan[c].pc = "send" /\ chan'[c].pc = "done" /\ chan'[c].state = "open"
              /\ chan[c].orderId \in DOMAIN db)
              => LET row == db[chan[c].orderId]
                     m == Last(chan'[c].recv)
                 IN /\ m.kind = "snapshot"
                    /\ m.status = row.status
                    /\ m.txHash = row.txHash
                    /\ m.error = row.errorMessage
                    /\ m.dex = row.dex]_vars

\* C18 as amended: the query of a subscription reads the row as persisted at
\* that moment (or finds no order, or fails); the message then sent to the
\* channel, if it is still open, carries the status, txHash, error and dex
\* that were read, and status failed with an error text when no order was
\* found or the query failed.
C18_SnapshotOfRowRead ==
    [][\A c \in DOMAIN chan :
          /\ (chan[c].pc = "query" /\ chan'[c].pc = "send") =>
                LET o == chan[c].orderId
                    snap == chan'[c].snap
                IN /\ snap.result \in {"row", "notfound", "error"}
                   /\ snap.result = "notfound" => o \notin DOMAIN db
                   /\ snap.result = "row" =>
                         /\ o \in DOMAIN db
                         /\ snap.status = db[o].status
                         /\ snap.txHash = db[o].txHash
                         /\ snap.errorMessage = db[o].errorMessage
                         /\ snap.dex = db[o].dex
          /\ (chan[c].pc = "send" /\ chan'[c].pc = "done" /\ chan'[c].state = "open") =>
                LET snap == chan[c].snap
                    m == Last(chan'[c].recv)
                IN /\ chan'[c].recv = Latest(Append(chan[c].recv, m))
                   /\ m.kind = "snapshot"
                   /\ snap.result = "row" =>
                         /\ m.status = snap.status
                         /\ m.txHash = snap.txHash
                         /\ m.error = snap.errorMessage
                         /\ m.dex = snap.dex
                   /\ snap.result = "notfound" =>
                         m.status = FAILED /\ m.error = "Order not found"
                   /\ snap.result = "error" =>
                         m.status = FAILED /\ m.error = "Could not retrieve order status"]_vars

\* A channel that subscribed after its order was CONFIRMED holds, as its only
\* message, the snapshot with CONFIRMED, the transaction hash and the venue.
C18_Witness ==
    \E c \in DOMAIN chan, j \in JobIds :
        /\ chan[c].state = "open"
        /\ chan[c].orderId = OrderOf(j).id
        /\ jobs[j].state = "completed"
        /\ chan[c].recv = <<Message("snapshot", CONFIRMED, "tx", Null, run[j].dex)>>

\* C19: a broadcast for an order id that has no registered channel sends
\* nothing, raises nothing, and leaves the registry and every channel as
\* they were.
C19_NoChannelNoEffect ==
    [][\A o \in WsOrderIds, status \in WsStatuses :
          (broadcastOrderUpdate(o, status) /\ o \notin DOMAIN connections)
              => /\ connections' = connections
                 /\ chan' = chan
                 /\ call'.sentTo = {}
                 /\ ~call'.threw]_vars

\* A broadcast for an order id without a registered channel was made while an
\* open channel exists that had subscribed to that id, lost its entry, and
\* holds its snapshot only.
C19_Witness ==
    /\ call.fn = "broadcastOrderUpdate"
    /\ call.orderId \notin DOMAIN connections
    /\ call.sentTo = {}
    /\ \E c \in DOMAIN chan :
          /\ chan[c].state = "open" /\ chan[c].orderId = call.orderId
          /\ chan[c].pc = "done"
          /\ Len(chan[c].recv) = 1 /\ chan[c].recv[1].kind = "snapshot"

\* C20: a broadcast sends only to the registered channel of the id, and only
\* if it is open; when the registered channel is not open or its send throws,
\* nothing is delivered and the id's entry is removed; a channel that left the
\* open state never returns to it, and only a new connection is ever
\* registered, so no later broadcast is sent to an evicted channel; the close
\* event of a channel leaves its id without an entry.
C20_EvictsDeadChannel ==
    [][/\ \A o \in WsOrderIds, status \in WsStatuses :
             broadcastOrderUpdate(o, status) =>
                 /\ call'.sentTo \subseteq
                       {c \in DOMAIN chan : /\ o \in DOMAIN connections
                                             /\ connections[o] = c
                                             /\ chan[c].state = "open"}
                 /\ \A c \in DOMAIN chan :
                       c \notin call'.sentTo => chan'[c].recv \in {chan[c].recv, <<>>}
                 /\ (o \in DOMAIN connections /\ call'.sentTo = {})
                       => o \notin DOMAIN connections'
                 /\ (o \in DOMAIN connections /\ call'.sentTo /= {})
                       => connections' = connections
       /\ \A c \in DOMAIN chan :
             /\ chan[c].state \notin {"none", "open"} => chan'[c].state /= "open"
             /\ (chan'[c].state = "closed" /\ chan[c].state /= "closed")
                   => chan[c].orderId \notin DOMAIN connections'
       /\ \A o \in DOMAIN connections' :
             (o \notin DOMAIN connections \/ connections'[o] /= connections[o])
                 => chan[connections'[o]].state = "none"]_vars

\* A broadcast found the id's registered channel no longer open and removed
\* its entry.
C20_Witness ==
    /\ call.fn = "broadcastOrderUpdate"
    /\ call.sentTo = {}
    /\ call.orderId \notin DOMAIN connections
    /\ \E c \in DOMAIN chan :
          /\ chan[c].state = "closing"
          /\ chan[c].orderId = call.orderId
          /\ \A d \in DOMAIN chan \ {c} : chan[d].orderId /= call.orderId

\* C21: after a heartbeat pass, every registered channel that was open and
\* whose send worked has received exactly one heartbeat and is still the
\* registered channel of its id; every registered channel that was not open,
\* or whose send threw, has lost its entry and received nothing; channels that
\* were not registered are untouched and no entry is added.
C21_HeartbeatPass ==
    [][sendHeartbeat =>
          /\ \A o \in DOMAIN connections :
                LET c == connections[o] IN
                IF chan[c].state = "open" /\ chan'[c].state = "open"
                THEN /\ chan'[c].recv = Latest(Append(chan[c].recv, HeartbeatMessage))
                     /\ o \in DOMAIN connections' /\ connections'[o] = c
                     /\ c \in call'.sentTo
                ELSE /\ o \notin DOMAIN connections'
                     /\ chan'[c].recv \in {chan[c].recv, <<>>}
                     /\ c \notin call'.sentTo
          /\ \A c \in DOMAIN chan : c \notin Registered => chan'[c] = chan[c]
          /\ DOMAIN connections' \subseteq DOMAIN connections]_vars

\* One heartbeat pass over two registered channels: the open one holds its
\* snapshot and the heartbeat and is still registered; the one that had left
\* the open state lost its entry.
C21_Witness ==
    /\ call.fn = "sendHeartbeat"
    /\ \E c \in DOMAIN chan, d \in DOMAIN chan :
          /\ call.sentTo = {c}
          /\ chan[c].state = "open"
          /\ chan[c].orderId \in DOMAIN connections
          /\ connections[chan[c].orderId] = c
          /\ Len(chan[c].recv) = 2
          /\ chan[c].recv[1].kind = "snapshot"
          /\ chan[c].recv[2] = HeartbeatMessage
          /\ chan[d].state = "closing"
          /\ chan[d].orderId /= chan[c].orderId
          /\ chan[d].orderId \notin DOMAIN connections

\* C22: a committed updateOrderStatus(orderId, status, partial) stores the
\* given status whatever was stored; each of txHash, executedAt, errorMessage
\* and dex keeps its stored value when absent from partial and takes the given
\* value when present; the type is never changed and no other row is touched.
C22_MergeKeepsAbsentFields ==
    (call.fn = "updateOrderStatus" /\ ~call.result.threw /\ call.orderId = 1) =>
        LET old == call.table[1]
            new == call.result.table[1]
        IN /\ DOMAIN call.result.table = DOMAIN call.table
           /\ new.status = call.status
           /\ new.type = old.type
           /\ new.txHash = (IF call.data.txHash = Undefined THEN old.txHash
                            ELSE call.data.txHash)
           /\ new.executedAt = (IF call.data.executedAt = Undefined THEN old.executedAt
                                ELSE call.data.executedAt)
           /\ new.errorMessage = (IF call.data.errorMessage = Undefined
                                  THEN old.errorMessage ELSE call.data.errorMessage)
           /\ new.dex = (IF call.data.dex = Undefined THEN old.dex ELSE call.data.dex)

\* A FAILED row with an error message and a venue was updated to CONFIRMED
\* with a transaction hash only: the hash is stored, the old error message and
\* venue are still there.
C22_Witness ==
    /\ call.fn = "updateOrderStatus" /\ ~call.result.threw /\ call.orderId = 1
    /\ call.table[1].status = FAILED
    /\ call.table[1].errorMessage = "error0" /\ call.table[1].dex = "raydium"
    /\ call.table[1].txHash = Null
    /\ call.status = CONFIRMED
    /\ call.data = [NoData EXCEPT !.txHash = "tx"]
    /\ call.result.table[1].status = CONFIRMED
    /\ call.result.table[1].txHash = "tx"
    /\ call.result.table[1].errorMessage = "error0"
    /\ call.result.table[1].dex = "raydium"

\* C23: an order's row is created with retryCount 0; a step that commits a
\* transition into FAILED adds exactly 1 to it; a step that commits a
\* transition into ROUTING, BUILDING, SUBMITTED or CONFIRMED, and every other
\* step, leaves it as it was.
C23_RetryCountOnFailedOnly ==
    [][\A o \in DOMAIN db' :
          IF o \notin DOMAIN db
          THEN db'[o].retryCount = 0
          ELSE LET committing == {j \in JobsOf(o) : /\ run[j].pc = "persist"
                                                     /\ run'[j].pc = "notify"}
               IN /\ \A j \in committing : db'[o].status = run[j].status
                  /\ IF \E j \in committing : run[j].status = FAILED
                     THEN db'[o].retryCount = db[o].retryCount + 1
                     ELSE db'[o].retryCount = db[o].retryCount]_vars

\* The third run of a job whose first two runs persisted FAILED has persisted
\* ROUTING and BUILDING: the count is 2.
C23_Witness ==
    \E j \in JobIds :
        /\ jobs[j].attemptsMade = 2
        /\ jobs[j].stalledCount = 0
        /\ run[j].persisted = <<ROUTING, BUILDING>>
        /\ RowOf(j).status = BUILDING
        /\ RowOf(j).retryCount = 2

\* C24 as stated: once CONFIRMED is persisted for an order its record never
\* changes again: the status stays CONFIRMED in every later step.
C24_ConfirmedIsImmutable ==
    [][\A o \in DOMAIN db : db[o].status = CONFIRMED => db'[o] = db[o]]_vars

\* C25 as stated: the first write of a run that retries a job after a thrown
\* failure moves the record from FAILED to ROUTING.
C25_RetryMovesFailedToRouting ==
    [][\A j \in JobIds :
          (/\ jobs[j].attemptsMade >= 1 /\ jobs[j].stalledCount = 0
           /\ run[j].pc = "persist" /\ run[j].persisted = <<>>
           /\ run'[j].persisted /= <<>>)
              => /\ RowOf(j).status = FAILED
                 /\ db'[OrderOf(j).id].status = ROUTING]_vars

\* C25 as amended: a retry calls processOrder for the same order from its
\* beginning: the run starts with the persist of ROUTING, its commits are
\* ROUTING, BUILDING, SUBMITTED in this order before execute is called (never
\* resuming where the failed run stopped), and its first commit writes ROUTING
\* over whatever the record holds (or FAILED, when the persist of ROUTING
\* throws). The step that fails the job for good writes nothing to the record
\* and no later step does; the record is then as the last commit of a run
\* left it.
C25_RetryRerunsFromRouting ==
    [][\A j \in JobIds :
          /\ (jobs[j].state = "waiting" /\ jobs'[j].state = "active") =>
                /\ run'[j].pc = "persist" /\ run'[j].status = ROUTING
                /\ run'[j].persisted = <<>> /\ run'[j].swaps = <<>>
                /\ ~run'[j].inCatch
                /\ jobs'[j].data = jobs[j].data
          /\ run'[j].pc = "route" => run'[j].persisted = <<ROUTING>>
          /\ run'[j].pc = "build" => run'[j].persisted = <<ROUTING, BUILDING>>
          /\ run'[j].pc = "execute" =>
                /\ run'[j].persisted = <<ROUTING, BUILDING, SUBMITTED>>
                /\ run'[j].swaps = <<>>
          /\ (run[j].pc = "persist" /\ run[j].persisted = <<>>
                 /\ run'[j].persisted /= <<>>) =>
                /\ run'[j].persisted \in {<<ROUTING>>, <<FAILED>>}
                /\ db'[OrderOf(j).id].status = run'[j].persisted[1]
                /\ run'[j].persisted = <<FAILED>> => run[j].inCatch
          /\ jobs'[j].state = "failed" => db'[OrderOf(j).id] = db[OrderOf(j).id]
          /\ jobs'[j].state = "failed" =>
                (run'[j].persisted /= <<>>
                    => db'[OrderOf(j).id].status = Last(run'[j].persisted))]_vars

\* A job was failed for good after three runs in which routing failed: each
\* run persisted ROUTING and then FAILED, so the record went from FAILED to
\* ROUTING twice and counts three failures.
C25_Witness ==
    \E j \in JobIds :
        /\ jobs[j].state = "failed"
        /\ jobs[j].invocations = Attempts
        /\ jobs[j].stalledCount = 0
        /\ run[j].persisted = <<ROUTING, FAILED>>
        /\ RowOf(j).status = FAILED
        /\ RowOf(j).retryCount = Attempts

\* C26: while the queue is paused no waiting job becomes active, and neither
\* pausing, resuming nor any step made while paused drops a job: every waiting
\* job is still waiting, in the same order, with the same payload. Once the
\* queue is not paused, every waiting job is eventually dispatched and
\* processed to completion, unless the queue is paused again while the job
\* still waits.
C26_PausedKeepsJobs ==
    /\ [][/\ (paused /\ paused') =>
                \A j \in JobIds : jobs[j].state = "waiting" => jobs'[j].state = "waiting"
          /\ (paused \/ paused') =>
                /\ Len(jobs') >= Len(jobs)
                /\ \A j \in JobIds : jobs'[j].data = jobs[j].data
                /\ \A j \in JobIds :
                      jobs[j].state = "waiting" =>
                          \/ jobs'[j].state = "waiting" /\ j \in {waitq'[i] : i \in 1..Len(waitq')}
                          \/ ~paused]_vars
    /\ \A j \in 1..LoadOrders :
          (j \in JobIds /\ jobs[j].state = "waiting" /\ ~paused)
              ~> \/ j \in JobIds /\ jobs[j].state = "completed" /\ jobs[j].invocations = 1
                 \/ j \in JobIds /\ jobs[j].state = "waiting" /\ paused

\* The queue is paused with the pool not full: two of the load's jobs were
\* taken before the pause, one of them has completed, and the others wait.
C26_Witness ==
    /\ paused
    /\ Len(jobs) = LoadOrders
    /\ Cardinality(ActiveJobs) = 1
    /\ Cardinality({j \in JobIds : jobs[j].state = "completed"}) = 1
    /\ Len(waitq) = LoadOrders - 2

\* C27: a record whose status is CONFIRMED has a transaction hash and a
\* venue. The step that commits CONFIRMED stores the hash the adapter
\* returned in that run, and the record's venue is the one routing selected in
\* that run: the venue whose quote was the higher of the two (meteora when
\* equal). While the status stays CONFIRMED, hash and venue stay as they are.
C27_ConfirmedHasHashAndVenue ==
    [][\A o \in DOMAIN db' :
          db'[o].status = CONFIRMED =>
              /\ db'[o].txHash /= Null
              /\ db'[o].dex \in {"raydium", "meteora"}
              /\ LET committing == {j \in JobsOf(o) : /\ run[j].pc = "persist"
                                                       /\ run'[j].pc = "notify"}
                 IN IF committing = {}
                    THEN o \in DOMAIN db /\ db'[o] = db[o]
                    ELSE \A j \in committing :
                            /\ run[j].status = CONFIRMED
                            /\ run[j].exec = "success"
                            /\ db'[o].txHash = run[j].txHash
                            /\ run[j].txHash /= Undefined
                            /\ db'[o].dex = run[j].dex
                            /\ db[o].dex = run[j].dex
                            /\ \E q \in {1, 2} :
                                  /\ run[j].quotes[q].dex = run[j].dex
                                  /\ run[j].quotes[q].price >= run[j].quotes[3 - q].price
                            /\ run[j].quotes[1].price > run[j].quotes[2].price
                                  <=> run[j].dex = "raydium"]_vars

\* An order was confirmed in the retry that followed a failed run: raydium
\* quoted the higher price in that run, and the record holds raydium and the
\* transaction hash.
C27_Witness ==
    \E j \in JobIds :
        /\ jobs[j].state = "completed"
        /\ jobs[j].attemptsMade = 1
        /\ RowOf(j).status = CONFIRMED
        /\ RowOf(j).retryCount = 1
        /\ RowOf(j).txHash = "tx"
        /\ RowOf(j).dex = "raydium"
        /\ run[j].quotes[1].price > run[j].quotes[2].price

\* C28: the broadcast of a transition never changes what processOrder does
\* next. Whatever the registry holds (no channel, a channel that is not open,
\* a channel whose send throws, an open channel), the step after a committed
\* transition goes on to the same next statement: routing after ROUTING,
\* building after BUILDING, execution after SUBMITTED, the return after
\* CONFIRMED or after the FAILED of a reported execution failure, the re-throw
\* of the caught exception after the FAILED of the catch block. It persists
\* nothing, never enters the catch block, and no run ever ends with an error
\* that comes from a notification.
C28_NotifyNeverAffectsRun ==
    [][\A j \in JobIds :
          /\ (Running(j) /\ run[j].pc = "notify" /\ run'[j] /= run[j]
                 /\ run'[j].outcome /= "abandoned") =>
                /\ db' = db
                /\ run'[j].persisted = run[j].persisted
                /\ run'[j].sent = Append(run[j].sent, run[j].status)
                /\ run'[j].status = run[j].status
                /\ run'[j].inCatch = run[j].inCatch
                /\ run'[j].err = run[j].err
                /\ CASE run[j].status = ROUTING -> run'[j].pc = "route"
                     [] run[j].status = BUILDING -> run'[j].pc = "build"
                     [] run[j].status = SUBMITTED -> run'[j].pc = "execute"
                     [] run[j].status = CONFIRMED ->
                            /\ run'[j].pc = "ended" /\ run'[j].outcome = "returned"
                            /\ jobs'[j].state = "completed"
                     [] run[j].status = FAILED ->
                            /\ run'[j].pc = "ended"
                            /\ run'[j].outcome =
                                  (IF run[j].inCatch THEN "thrown" ELSE "returned")
                            /\ run[j].inCatch => run'[j].raised = run[j].err
          /\ run'[j].err \in {"none", "database error", "DEX routing failed", "swap failed"}
          /\ run'[j].raised \in {"none", "database error", "DEX routing failed"}]_vars

\* In the first run of a job the send to the order's subscriber threw, the
\* channel lost its entry, and the run went through its four transitions and
\* returned.
C28_Witness ==
    \E j \in JobIds, c \in DOMAIN chan :
        /\ chan[c].state = "broken"
        /\ chan[c].orderId = OrderOf(j).id
        /\ OrderOf(j).id \notin DOMAIN connections
        /\ Finished(j)
        /\ jobs[j].invocations = 1
        /\ run[j].outcome = "returned"
        /\ run[j].persisted = <<ROUTING, BUILDING, SUBMITTED, CONFIRMED>>
        /\ run[j].sent = <<ROUTING, BUILDING, SUBMITTED, CONFIRMED>>

\* C29: in a run of processOrder the commit of BUILDING stores the venue
\* routing selected in that run and the broadcast of BUILDING carries it;
\* execute is called once, with that venue, after ROUTING, BUILDING and
\* SUBMITTED were committed; when it reports failure or throws, the run goes
\* on to persist FAILED and calls execute for no other venue.
C29_ExecutesSelectedVenueOnly ==
    [][\A j \in JobIds :
          LET o == OrderOf(j).id IN
          /\ (run[j].pc = "persist" /\ run'[j].pc = "notify" /\ run[j].status = BUILDING) =>
                /\ run[j].dex \in {"raydium", "meteora"}
                /\ db'[o].dex = run[j].dex
          /\ (Running(j) /\ run[j].pc = "notify" /\ run[j].status = BUILDING
                 /\ run'[j].pc = "build") =>
                \A c \in DOMAIN chan :
                    (chan'[c].state = "open" /\ chan'[c].recv /= chan[c].recv) =>
                        /\ Last(chan'[c].recv).status = BUILDING
                        /\ Last(chan'[c].recv).dex = run[j].dex
          /\ (run[j].pc = "execute" /\ run'[j].pc = "persist") =>
                /\ run[j].swaps = <<>>
                /\ run'[j].swaps = <<run[j].dex>>
                /\ run'[j].dex = run[j].dex
                /\ db[o].dex = run[j].dex
                /\ run[j].persisted = <<ROUTING, BUILDING, SUBMITTED>>
                /\ run[j].sent = <<ROUTING, BUILDING, SUBMITTED>>
                /\ run'[j].exec \in {"failure", "throws"} => run'[j].status = FAILED
          /\ Len(run'[j].swaps) <= 1
          /\ run'[j].pc = "execute" => run'[j].swaps = <<>>]_vars

\* Routing selected meteora; the subscriber was sent BUILDING with meteora and
\* then SUBMITTED; execute was called once, on meteora, and failed; the run is
\* about to persist FAILED.
C29_Witness ==
    \E j \in JobIds, c \in DOMAIN chan :
        /\ run[j].pc = "persist" /\ run[j].status = FAILED /\ ~run[j].inCatch
        /\ run[j].exec = "failure"
        /\ run[j].dex = "meteora"
        /\ run[j].swaps = <<"meteora">>
        /\ RowOf(j).dex = "meteora"
        /\ RowOf(j).status = SUBMITTED
        /\ chan[c].recv = << UpdateMessage(BUILDING, [NoData EXCEPT !.dex = "meteora"]),
                             UpdateMessage(SUBMITTED, NoData) >>

\* C30: when the persistence call of a transition throws, nothing is written
\* and the run enters the catch block, which attempts to persist FAILED with
\* the database error's message; whether that commits or throws too, the run
\* ends by raising the database error and never returns; the queue counts the
\* attempt as failed and schedules the job for another run while fewer than
\* three attempts were made, and fails it for good otherwise.
C30_PersistenceFailurePropagates ==
    [][\A j \in JobIds :
          /\ (run[j].pc = "persist" /\ ~run[j].inCatch /\ run'[j].inCatch) =>
                /\ db' = db
                /\ run'[j].pc = "persist" /\ run'[j].status = FAILED
                /\ run'[j].err = "database error"
                /\ run'[j].persisted = run[j].persisted
                /\ jobs'[j] = jobs[j]
          /\ (run[j].pc = "persist" /\ run[j].inCatch /\ run'[j].pc = "ended"
                 /\ run'[j].outcome /= "abandoned") =>
                /\ db' = db
                /\ run'[j].outcome = "thrown"
                /\ run'[j].raised = "database error"
          /\ run'[j].err = "database error" => run'[j].outcome /= "returned"
          /\ (run[j].pc /= "ended" /\ run'[j].pc = "ended"
                 /\ run'[j].outcome /= "abandoned"
                 /\ (run[j].err = "database error" \/ run'[j].raised = "database error")) =>
                /\ run'[j].outcome = "thrown"
                /\ run'[j].raised = "database error"
                /\ jobs'[j].attemptsMade = jobs[j].attemptsMade + 1
                /\ jobs'[j].state = (IF jobs'[j].attemptsMade < Attempts
                                     THEN "delayed" ELSE "failed")]_vars

\* A persist that followed BUILDING threw in a job's first run; the catch block
\* stored FAILED with the database error's message and the run raised; the
\* queue counted one failed attempt and runs the job again, which has
\* persisted ROUTING.
C30_Witness ==
    \E j \in JobIds :
        /\ jobs[j].state = "active"
        /\ jobs[j].attemptsMade = 1
        /\ jobs[j].invocations = 2
        /\ run[j].persisted = <<ROUTING>>
        /\ RowOf(j).status = ROUTING
        /\ RowOf(j).errorMessage = "database error"
        /\ RowOf(j).dex /= Null
        /\ RowOf(j).retryCount = 1

\* C31: a transition is applied whole or not at all. When updateOrderStatus
\* returns, the record holds the new status, every given field, every stored
\* value of a field not given, and a retryCount one higher exactly when the
\* status is FAILED; when it raises, the record is as it was. A record changes
\* in no other step, and the catch-up query of a subscription reads the row
\* as one of these steps left it.
C31_AtomicTransition ==
    [][/\ \A j \in JobIds :
             LET o == OrderOf(j).id
                 data == CallData(run[j])
             IN (run[j].pc = "persist" /\ run'[j] /= run[j]
                    /\ run'[j].outcome /= "abandoned") =>
                   IF run'[j].pc = "notify"
                   THEN /\ run'[j].persisted = Append(run[j].persisted, run[j].status)
                        /\ db'[o].status = run[j].status
                        /\ db'[o].retryCount =
                              db[o].retryCount + (IF run[j].status = FAILED THEN 1 ELSE 0)
                        /\ db'[o].txHash = (IF data.txHash = Undefined THEN db[o].txHash
                                            ELSE data.txHash)
                        /\ db'[o].executedAt = (IF data.executedAt = Undefined
                                                THEN db[o].executedAt ELSE data.executedAt)
                        /\ db'[o].errorMessage = (IF data.errorMessage = Undefined
                                                  THEN db[o].errorMessage
                                                  ELSE data.errorMessage)
                        /\ db'[o].dex = (IF data.dex = Undefined THEN db[o].dex ELSE data.dex)
                   ELSE /\ db' = db
                        /\ run'[j].persisted = run[j].persisted
       /\ \A o \in DOMAIN db :
             db'[o] /= db[o] =>
                 \E j \in JobsOf(o) : run[j].pc = "persist" /\ run'[j].pc = "notify"
       /\ \A c \in DOMAIN chan :
             (chan[c].pc = "query" /\ chan'[c].pc = "send" /\ chan'[c].snap.result = "row") =>
                 LET row == db[chan[c].orderId] IN
                 /\ db' = db
                 /\ chan'[c].snap.status = row.status
                 /\ chan'[c].snap.txHash = row.txHash
                 /\ chan'[c].snap.errorMessage = row.errorMessage
                 /\ chan'[c].snap.dex = row.dex]_vars

\* The persist of BUILDING raised in a job's first run: the record still holds
\* ROUTING, no venue and retryCount 0, and the run is in its catch block.
C31_Witness ==
    \E j \in JobIds :
        /\ jobs[j].invocations = 1
        /\ run[j].pc = "persist" /\ run[j].status = FAILED /\ run[j].inCatch
        /\ run[j].err = "database error"
        /\ run[j].persisted = <<ROUTING>>
        /\ run[j].dex /= Null
        /\ RowOf(j) = [NewRow("market") EXCEPT !.status = ROUTING]

\* C32 as stated: for one job the number of quote rounds is at most
\* Attempts x (MaxRetries + 1), three job attempts of four rounds each.
C32_RoundsAtMostProduct ==
    \A j \in JobIds :
        Count(call.selectBestDex, OrderOf(j).id) <= Attempts * (MaxRetries + 1)

\* C32 as amended: the quote rounds made for a job are at most four
\* (MaxRetries + 1) for each run of processOrder the queue started for it; the
\* runs are at most Attempts (3) plus the job's stalled re-queues, so at most
\* 3 x 4 = 12 rounds are made for a job that never stalled; a run makes no
\* round beyond its fourth.
C32_RoundsAtMostRunsTimesFour ==
    \A j \in JobIds :
        LET rounds == Count(call.selectBestDex, OrderOf(j).id) IN
        /\ rounds <= jobs[j].invocations * (MaxRetries + 1)
        /\ jobs[j].invocations <= Attempts + jobs[j].stalledCount
        /\ jobs[j].stalledCount = 0 => rounds <= Attempts * (MaxRetries + 1)
        /\ run[j].attempt <= MaxRetries
        /\ run[j].err = "DEX routing failed" => rounds >= MaxRetries + 1

\* Every quote round failed in the three runs of a job that never stalled:
\* twelve rounds were made, no venue was ever stored and the job is failed.
C32_Witness ==
    \E j \in JobIds :
        /\ jobs[j].state = "failed"
        /\ jobs[j].stalledCount = 0
        /\ jobs[j].invocations = Attempts
        /\ RowOf(j).dex = Null
        /\ RowOf(j).retryCount = Attempts
        /\ RowOf(j).errorMessage = "DEX routing failed"
        /\ Count(call.selectBestDex, OrderOf(j).id) = Attempts * (MaxRetries + 1)

\* C33: in every run the statuses broadcast so far are the first of the
\* statuses committed so far, in the same order: a status is broadcast only
\* after its commit. An update that reaches a subscriber carries the status a
\* run has just committed, which the order's record holds at that moment. The
\* step in which a persist throws sends nothing, and the status it failed to
\* persist is never broadcast.
C33_PersistBeforeNotify ==
    [][/\ \A j \in JobIds :
             /\ Len(run'[j].sent) <= Len(run'[j].persisted)
             /\ \A i \in 1..Len(run'[j].sent) : run'[j].sent[i] = run'[j].persisted[i]
             /\ (run[j].pc = "persist" /\ run'[j] /= run[j] /\ run'[j].pc /= "notify") =>
                   /\ chan' = chan
                   /\ run'[j].sent = run[j].sent
       /\ \A c \in DOMAIN chan :
             (chan'[c].state = "open" /\ chan'[c].recv /= chan[c].recv
                 /\ Last(chan'[c].recv).kind = "update") =>
                 \E j \in JobsOf(chan[c].orderId) :
                     /\ Running(j) /\ run[j].pc = "notify"
                     /\ Last(chan'[c].recv).status = run[j].status
                     /\ Last(run[j].persisted) = run[j].status
                     /\ db[chan[c].orderId].status = run[j].status]_vars

\* A subscriber that holds the PENDING snapshot was sent ROUTING after its
\* commit; the persist of BUILDING then threw, and BUILDING was not sent.
C33_Witness ==
    \E j \in JobIds, c \in DOMAIN chan :
        /\ run[j].pc = "persist" /\ run[j].status = FAILED /\ run[j].inCatch
        /\ run[j].err = "database error"
        /\ run[j].dex /= Null
        /\ run[j].persisted = <<ROUTING>>
        /\ run[j].sent = <<ROUTING>>
        /\ chan[c].state = "open"
        /\ chan[c].orderId = OrderOf(j).id
        /\ chan[c].recv = << Message("snapshot", PENDING, Null, Null, Null),
                             UpdateMessage(ROUTING, NoData) >>

\* C34 as stated: the registry entry of a channel goes away, or passes to
\* another channel, only in a step in which that channel itself is closed,
\* errs or fails a send, or in which the channel was already not open, or in
\* which a new subscriber of the same id takes its place.
C34_RemovedOnlyByItself ==
    [][\A o \in DOMAIN connections :
          LET b == connections[o]
          IN (o \notin DOMAIN connections' \/ connections'[o] /= b) =>
                \/ chan[b].state /= "open"
                \/ chan'[b].state \in {"closed", "broken", "closing"}
                \/ /\ o \in DOMAIN connections'
                   /\ chan[connections'[o]].state = "none"
                   /\ chan'[connections'[o]].state = "open"]_vars

\* C35 as stated: on a channel, the catch-up snapshot comes before every
\* status update, and no status message carries a status that is earlier in
\* the lifecycle than one delivered before it.
C35_Stage(status) ==
    CASE status = PENDING -> 0
      [] status = ROUTING -> 1
      [] status = BUILDING -> 2
      [] status = SUBMITTED -> 3
      [] OTHER -> 4

C35_SnapshotFirstNoRegress ==
    \A c \in DOMAIN chan :
        LET recv == chan[c].recv
        IN \A i, k \in 1..Len(recv) :
              (i < k /\ recv[i].kind /= "heartbeat" /\ recv[k].kind /= "heartbeat") =>
                  /\ recv[k].kind /= "snapshot"
                  /\ C35_Stage(recv[i].status) <= C35_Stage(recv[k].status)

\* C37: in every processOrder run the venue adapter's execute has been called
\* at most once; when it has been called, ROUTING, BUILDING and SUBMITTED are
\* the first three statuses the run persisted, in that order, and routing had
\* selected the venue it was called on; a run that is in its catch block
\* before those three were persisted (routing failed, or a persist threw) has
\* called no execute.
C37_ExecuteOnceAfterSubmitted ==
    \A j \in JobIds :
        /\ Len(run[j].swaps) <= 1
        /\ run[j].swaps /= <<>> =>
              /\ Len(run[j].persisted) >= 3
              /\ SubSeq(run[j].persisted, 1, 3) = <<ROUTING, BUILDING, SUBMITTED>>
              /\ run[j].dex \in {"raydium", "meteora"}
        /\ run[j].dex = Null => run[j].swaps = <<>>
        /\ (run[j].inCatch /\ run[j].exec = "none") => run[j].swaps = <<>>
        /\ (Len(run[j].persisted) < 3 \/ FAILED \in {run[j].persisted[i] : i \in 1..3})
              => run[j].swaps = <<>>

\* A run has persisted the three statuses and called execute once; another
\* run of the same kind is possible only as a new attempt.
C37_Witness ==
    \E j \in JobIds :
        /\ run[j].swaps = <<"raydium">>
        /\ run[j].exec = "success"
        /\ run[j].persisted = <<ROUTING, BUILDING, SUBMITTED>>
        /\ run[j].pc = "persist" /\ run[j].status = CONFIRMED

\* C36 as stated: over all runs made for an order, the venue adapter's
\* execute returns success at most once.
C36_SwapSucceedsAtMostOnce ==
    \A j \in JobIds : Count(call.swapped, OrderOf(j).id) <= 1

\* C38 as stated: when a job is completed or failed, the order's retryCount
\* is the number of commits of FAILED made for it and lies between 0 and the
\* attempt cap.
C38_RetryCountAtMostAttempts ==
    \A j \in JobIds :
        jobs[j].state \in {"completed", "failed"} =>
            /\ RowOf(j).retryCount = Count(call.failed, OrderOf(j).id)
            /\ RowOf(j).retryCount >= 0
            /\ RowOf(j).retryCount <= Attempts

\* C38 as amended: the order's retryCount is at every moment the number of
\* commits of FAILED made for it; a run of processOrder commits FAILED at most
\* once, so retryCount is at most the number of runs the queue started for the
\* job, which is at most Attempts (3) plus the job's stalled re-queues:
\* between 0 and 3 for a job that never stalled.
C38_RetryCountIsFailedRuns ==
    \A j \in JobIds :
        /\ RowOf(j).retryCount = Count(call.failed, OrderOf(j).id)
        /\ Cardinality({i \in 1..Len(run[j].persisted) : run[j].persisted[i] = FAILED}) <= 1
        /\ RowOf(j).retryCount >= 0
        /\ RowOf(j).retryCount <= jobs[j].invocations
        /\ jobs[j].invocations <= Attempts + jobs[j].stalledCount
        /\ jobs[j].stalledCount = 0 => RowOf(j).retryCount <= Attempts

\* A job is failed after four runs, one of them abandoned by a stall after its
\* commit of FAILED: each run committed FAILED once and retryCount is 4.
C38_Witness ==
    \E j \in JobIds :
        /\ jobs[j].state = "failed"
        /\ jobs[j].stalledCount = 1
        /\ jobs[j].invocations = Attempts + 1
        /\ Count(call.failed, OrderOf(j).id) = Attempts + 1
        /\ RowOf(j).retryCount = Attempts + 1
        /\ RowOf(j).status = FAILED

\* The invocations of the operation that succeed.
C39_FirstSuccess ==
    {k \in DOMAIN call.operation : ~call.operation[k].threw}

\* C39: retryWithBackoff around an operation whose k-th invocation is its
\* first success returns that invocation's result after exactly k invocations
\* and k - 1 sleeps, and invokes nothing after it; around an operation that
\* never succeeds it makes maxRetries + 1 invocations with maxRetries sleeps,
\* none after the last failure.
C39_StopsAtFirstSuccess ==
    call.fn = "retryWithBackoff" =>
        LET result == call.result IN
        IF C39_FirstSuccess /= {}
        THEN LET k == CHOOSE k \in C39_FirstSuccess : \A i \in C39_FirstSuccess : k <= i
             IN /\ result.outcome = call.operation[k]
                /\ result.invocations = k
                /\ Len(result.sleeps) = k - 1
        ELSE /\ result.outcome.threw
             /\ result.invocations = call.maxRetries + 1
             /\ Len(result.sleeps) = call.maxRetries

\* The operation failed twice and then succeeded; a fourth invocation would
\* have succeeded with another value. Three invocations, two sleeps, the third
\* invocation's value.
C39_Witness ==
    /\ call.fn = "retryWithBackoff"
    /\ call.maxRetries = MaxRetries
    /\ call.operation = << Throws("error A"), Throws("error B"),
                           Resolves("value B"), Resolves("value") >>
    /\ call.result.outcome = Resolves("value B")
    /\ call.result.invocations = 3
    /\ call.result.sleeps = <<BackoffDelay(0), BackoffDelay(1)>>

====
